---------------------------- MODULE Spec2Model ----------------------------
(***************************************************************************)
(* ws2http: JSON-RPC 2.0 WebSocket -> HTTP proxy.                          *)
(*                                                                         *)
(* The model covers one WebSocket session of HttpForwarder.Handler (reader *)
(* goroutine, its requestForwarder, the dispatch workers it spawns) and    *)
(* the connection tracer of app/debug.go (debugApp.loop, the wsHandler of  *)
(* each watcher, the three buffered channels between them).                *)
(*                                                                         *)
(* Strings are tuples of one-character strings, so that bytes.HasPrefix,   *)
(* msg[4:], strings.Split and http.Header's key canonicalisation are       *)
(* computed as the Go code computes them.                                  *)
(***************************************************************************)
EXTENDS Integers, Sequences, FiniteSets, Bags, TLC

(***************************************************************************)
(* Bounds of the model.                                                    *)
(***************************************************************************)
\* frames the client sends on the session
MaxFrames == 2
\* capacity of the buffered channels of debugApp and of a watcher's inbox
\* (eventsBuffer is 1000 in the program; the model scales it down)
ChanCap == 1
\* the largest -c (max parallel requests per session) a forwarder is given
MaxParallel == 1

(***************************************************************************)
(* String literals of the program.                                         *)
(***************************************************************************)
sSET == <<"S", "E", "T", " ">>
sAUTH == <<"A", "U", "T", "H", " ">>
sAuthorization == <<"A", "u", "t", "h", "o", "r", "i", "z", "a", "t", "i", "o", "n">>
sContentType == <<"C", "o", "n", "t", "e", "n", "t", "-", "T", "y", "p", "e">>
sApplicationJson == <<"a", "p", "p", "l", "i", "c", "a", "t", "i", "o", "n", "/", "j", "s", "o", "n">>
errInvalidPrefix == "invalid prefix: dstUrl was not found"
errMethodFormat == "invalid method format"

(***************************************************************************)
(* Byte-string helpers of the Go standard library.                         *)
(***************************************************************************)
\* bytes.HasPrefix
HasPrefix(s, p) == Len(s) >= Len(p) /\ SubSeq(s, 1, Len(p)) = p

\* s[n:] of Go (n counted from 0)
SliceFrom(s, n) == SubSeq(s, n + 1, Len(s))

\* strings.Index(s, c) for a one-byte separator, counted from 1; 0 when absent
IndexOf(s, c) ==
    IF \E i \in 1..Len(s) : s[i] = c
    THEN CHOOSE i \in 1..Len(s) : s[i] = c /\ \A j \in 1..(i - 1) : s[j] # c
    ELSE 0

\* strings.Split(s, sep) for a one-byte separator: every separator splits,
\* and a string without separator (the empty one included) gives one piece
RECURSIVE Split(_, _)
Split(s, sep) ==
    LET i == IndexOf(s, sep)
    IN  IF i = 0 THEN <<s>>
        ELSE <<SubSeq(s, 1, i - 1)>> \o Split(SubSeq(s, i + 1, Len(s)), sep)

\* a variant of SplitN that splits at every separator
SplitN2Every(s, sep) == Split(s, sep)

\* strings.SplitN(s, sep, 2): at most two pieces, split at the first separator
SplitN2(s, sep) ==
    LET i == IndexOf(s, sep)
    IN  IF i = 0 THEN <<s>>
        ELSE <<SubSeq(s, 1, i - 1), SubSeq(s, i + 1, Len(s))>>

LowerOf == [A |-> "a", T |-> "t", X |-> "x", E |-> "e", V |-> "v", W |-> "w"]
UpperOf == [a |-> "A", t |-> "T", x |-> "X", e |-> "E", v |-> "V", w |-> "W",
            u |-> "U", h |-> "H", o |-> "O", r |-> "R", i |-> "I", z |-> "Z", n |-> "N"]
ToUpper(c) == IF c \in DOMAIN UpperOf THEN UpperOf[c] ELSE c
ToLower(c) == IF c \in DOMAIN LowerOf THEN LowerOf[c] ELSE c

\* textproto.CanonicalMIMEHeaderKey, as http.Header.Set/Add/Get apply it to
\* the key: the first letter and every letter after a hyphen upper case,
\* the others lower case; a key holding a space is returned unchanged
CanonicalMIMEHeaderKey(k) ==
    IF \E i \in 1..Len(k) : k[i] = " " THEN k
    ELSE [i \in 1..Len(k) |->
            IF i = 1 \/ k[i - 1] = "-" THEN ToUpper(k[i]) ELSE ToLower(k[i])]

(***************************************************************************)
(* http.Header: a set of <<key, value>> pairs.                             *)
(***************************************************************************)
HeaderSet(h, k, v) ==
    LET ck == CanonicalMIMEHeaderKey(k)
    IN  {p \in h : p[1] # ck} \cup {<<ck, v>>}

HeaderAdd(h, k, v) == h \cup {<<CanonicalMIMEHeaderKey(k), v>>}

HeaderKeys(h) == {p[1] : p \in h}

\* the values a header carries under name k (names compare as http.Header.Get
\* compares them: in canonical form)
HeaderValues(h, k) == {p[2] : p \in {q \in h : q[1] = CanonicalMIMEHeaderKey(k)}}


(***************************************************************************)
(* Frames.  A frame is [text, json, fields]: text holds the bytes a        *)
(* control frame is recognised and split by; for a frame that is a JSON    *)
(* object, json is TRUE and fields lists its members in textual order as   *)
(* <<name, raw JSON value>>.                                               *)
(***************************************************************************)
Sp == <<" ">>
Quoted(s) == <<"\"">> \o s \o <<"\"">>
Ctl(t) == [text |-> t, json |-> FALSE, fields |-> <<>>]
Obj(f) == [text |-> <<"{">>, json |-> TRUE, fields |-> f]

\* header names and values a client may put into a control frame
nXt == <<"x", "-", "t">>
nEvil == <<"E">>
FrameValues == {<<"v">>, <<"w">>, <<"v", " ", "w">>, <<>>}

SetFrame(n, v) == Ctl(sSET \o n \o Sp \o v)
BareSetFrame(n) == Ctl(sSET \o n)
AuthFrame(v) == Ctl(sAUTH \o v)

\* JSON-RPC requests: a call routed by prefix r, a call without prefix, a
\* call with an unknown prefix, a notification (no id)
mRM == <<"r", ".", "m">>
mM == <<"m">>
mQM == <<"q", ".", "m">>
mRMN == <<"r", ".", "m", ".", "n">>
pArr == <<"[", "4", "]">>
Call(m, id) == Obj(<<<<"jsonrpc", Quoted(<<"2", ".", "0">>)>>,
                     <<"method", Quoted(m)>>, <<"id", id>>>>)
CallWith(m, params, id) == Obj(<<<<"jsonrpc", Quoted(<<"2", ".", "0">>)>>,
                                  <<"method", Quoted(m)>>, <<"params", params>>,
                                  <<"id", id>>>>)
Notification(m) == Obj(<<<<"jsonrpc", Quoted(<<"2", ".", "0">>)>>,
                         <<"method", Quoted(m)>>>>)
RpcFrames ==
    {CallWith(mRMN, pArr, <<"1">>), Call(mM, Quoted(<<"x">>)), Call(mQM, <<"1">>),
     Notification(mRM), Ctl(<<"x">>)}

(***************************************************************************)
(* JSON-RPC envelope.                                                      *)
(***************************************************************************)
JsonRpcServerErr == -32000
JsonRpcMethodNotFound == -32601
NilId == <<>>
sNull == <<"n", "u", "l", "l">>

HasField(fields, k) == \E i \in 1..Len(fields) : fields[i][1] = k
FieldOf(fields, k) ==
    fields[CHOOSE i \in 1..Len(fields) :
              fields[i][1] = k /\ \A j \in (i + 1)..Len(fields) : fields[j][1] # k][2]

\* json.Unmarshal(msg, &req) into a JsonRpcRequest: an absent member leaves
\* the zero value, a JSON null id is the nil interface
JsonRpcRequest(m) ==
    [Version |-> IF HasField(m.fields, "jsonrpc")
                 THEN SubSeq(FieldOf(m.fields, "jsonrpc"), 2, Len(FieldOf(m.fields, "jsonrpc")) - 1)
                 ELSE <<>>,
     Id |-> IF HasField(m.fields, "id") /\ FieldOf(m.fields, "id") # sNull
            THEN FieldOf(m.fields, "id") ELSE NilId,
     Method |-> IF HasField(m.fields, "method")
                THEN SubSeq(FieldOf(m.fields, "method"), 2, Len(FieldOf(m.fields, "method")) - 1)
                ELSE <<>>,
     Params |-> IF HasField(m.fields, "params") THEN FieldOf(m.fields, "params") ELSE <<>>]

ZeroRequest == [Version |-> <<>>, Id |-> NilId, Method |-> <<>>, Params |-> <<>>]

\* rpcRequest.JSON(): json.Marshal(r.req), members in the struct's order
RequestJSON(req) ==
    Obj(<<<<"jsonrpc", Quoted(req.Version)>>,
          <<"id", IF req.Id = NilId THEN sNull ELSE req.Id>>,
          <<"method", Quoted(req.Method)>>,
          <<"params", IF req.Params = <<>> THEN sNull ELSE req.Params>>>>)

\* A reply frame written to the WebSocket: the upstream body as received,
\* or a JsonRpcErrResponse {jsonrpc, id, error{code, message}}
NoRpcErr == [nil |-> TRUE, Id |-> NilId, Code |-> 0, Message |-> ""]

\* a variant of NewJsonRpcErrResponse that takes the status as the code
NewJsonRpcErrResponsePlain(postData, httpCode, err) ==
    IF ~postData.json THEN NoRpcErr
    ELSE [nil |-> FALSE,
          Id |-> JsonRpcRequest(postData).Id,
          Code |-> IF httpCode = 0 THEN JsonRpcServerErr ELSE httpCode,
          Message |-> err]

\* NewJsonRpcErrResponse(postData, httpCode, err)
NewJsonRpcErrResponse(postData, httpCode, err) ==
    IF ~postData.json THEN NoRpcErr
    ELSE [nil |-> FALSE,
          Id |-> JsonRpcRequest(postData).Id,
          Code |-> IF httpCode = 0 THEN JsonRpcServerErr ELSE (-1) * httpCode,
          Message |-> err]

\* NewJsonRpcErr(req, code, err)
NewJsonRpcErr(req, code, err) ==
    [nil |-> FALSE, Id |-> req.Id,
     Code |-> IF code > 0 THEN (-1) * code ELSE code,
     Message |-> err]

(***************************************************************************)
(* requestForwarder: header control frames.                                *)
(***************************************************************************)
\* a variant of isAllowedHeader that lets every name through
isAllowedHeaderAny(allowed, header) == TRUE

\* requestForwarder.isAllowedHeader
isAllowedHeader(allowed, header) == header \in allowed

\* requestForwarder.checkAndSetHeaders(msg) on header map h:
\* [handled, headers, panic].  hv[1] of the Go code is hv[2] here; indexing
\* a one-piece split panics (index out of range), also in the Printf of the
\* refusal branch.
checkAndSetHeaders(allowed, h, msg) ==
    IF HasPrefix(msg.text, sAUTH)
    THEN [handled |-> TRUE, panic |-> FALSE,
          headers |-> IF isAllowedHeader(allowed, sAuthorization)
                      THEN HeaderSet(h, sAuthorization, SliceFrom(msg.text, 5))
                      ELSE h]
    ELSE IF HasPrefix(msg.text, sSET)
    THEN LET hv == Split(SliceFrom(msg.text, 4), " ")
         IN  IF Len(hv) < 2
             THEN [handled |-> TRUE, panic |-> TRUE, headers |-> h]
             ELSE [handled |-> TRUE, panic |-> FALSE,
                   headers |-> IF isAllowedHeader(allowed, hv[1])
                               THEN HeaderSet(h, hv[1], hv[2])
                               ELSE h]
    ELSE [handled |-> FALSE, panic |-> FALSE, headers |-> h]

\* requestForwarder.copyHeaders: a new http.Header filled by Add
RECURSIVE copyHeadersFrom(_, _)
copyHeadersFrom(h, acc) ==
    IF h = {} THEN acc
    ELSE LET p == CHOOSE q \in h : TRUE
         IN  copyHeadersFrom(h \ {p}, HeaderAdd(acc, p[1], p[2]))

copyHeaders(h) == copyHeadersFrom(h, {})

(***************************************************************************)
(* Routing.                                                                *)
(***************************************************************************)
ProxyRules == {[Src |-> <<"/", "r">>, DstUrl |-> "http://r"],
               [Src |-> <<"/", "t">>, DstUrl |-> "http://t"]}

\* a variant of rewriteRequest without the test for single mode
rewriteRequestNoModeTest(rules, path, msg, defaultDstUrl) ==
    IF ~msg.json
    THEN [err |-> "unmarshal",
          rpcReq |-> [req |-> ZeroRequest, msg |-> Ctl(<<>>), srcUrl |-> <<>>, dstUrl |-> ""]]
    ELSE LET req == JsonRpcRequest(msg)
             m == SplitN2(req.Method, ".")
             base == [req |-> req, msg |-> msg, srcUrl |-> path, dstUrl |-> ""]
         IN  IF Len(m) = 1
             THEN [err |-> errMethodFormat, rpcReq |-> base]
             ELSE LET src == <<"/">> \o m[1]
                      nreq == [req EXCEPT !.Method = m[2]]
                  IN  IF ~\E r \in rules : r.Src = src
                      THEN [err |-> errInvalidPrefix,
                            rpcReq |-> [base EXCEPT !.srcUrl = src]]
                      ELSE [err |-> "",
                            rpcReq |-> [req |-> nreq, msg |-> RequestJSON(nreq),
                                        srcUrl |-> src,
                                        dstUrl |-> (CHOOSE x \in rules : x.Src = src).DstUrl]]

\* a variant of rewriteRequest that strips the prefix from the method before
\* it looks the prefix up
rewriteRequestEager(rules, path, msg, defaultDstUrl) ==
    IF ~msg.json
    THEN [err |-> "unmarshal",
          rpcReq |-> [req |-> ZeroRequest, msg |-> Ctl(<<>>), srcUrl |-> <<>>, dstUrl |-> ""]]
    ELSE LET req == JsonRpcRequest(msg)
             m == SplitN2(req.Method, ".")
             base == [req |-> req, msg |-> msg, srcUrl |-> path, dstUrl |-> ""]
         IN  IF rules = {}
             THEN [err |-> "", rpcReq |-> [base EXCEPT !.dstUrl = defaultDstUrl]]
             ELSE IF Len(m) = 1
             THEN [err |-> errMethodFormat, rpcReq |-> base]
             ELSE LET src == <<"/">> \o m[1]
                      nreq == [req EXCEPT !.Method = m[2]]
                  IN  IF ~\E r \in rules : r.Src = src
                      THEN [err |-> errInvalidPrefix,
                            rpcReq |-> [base EXCEPT !.srcUrl = src, !.req = nreq]]
                      ELSE [err |-> "",
                            rpcReq |-> [req |-> nreq, msg |-> RequestJSON(nreq),
                                        srcUrl |-> src,
                                        dstUrl |-> (CHOOSE x \in rules : x.Src = src).DstUrl]]

\* requestForwarder.rewriteRequest(msg, defaultDstUrl): [rpcReq, err]
rewriteRequest(rules, path, msg, defaultDstUrl) ==
    IF ~msg.json
    THEN [err |-> "unmarshal",
          rpcReq |-> [req |-> ZeroRequest, msg |-> Ctl(<<>>), srcUrl |-> <<>>, dstUrl |-> ""]]
    ELSE LET req == JsonRpcRequest(msg)
             m == SplitN2(req.Method, ".")
             base == [req |-> req, msg |-> msg, srcUrl |-> path, dstUrl |-> ""]
         IN  IF rules = {}
             THEN [err |-> "", rpcReq |-> [base EXCEPT !.dstUrl = defaultDstUrl]]
             ELSE IF Len(m) = 1
             THEN [err |-> errMethodFormat, rpcReq |-> base]
             ELSE LET src == <<"/">> \o m[1]
                  IN  IF ~\E r \in rules : r.Src = src
                      THEN [err |-> errInvalidPrefix,
                            rpcReq |-> [base EXCEPT !.srcUrl = src]]
                      ELSE LET r == CHOOSE x \in rules : x.Src = src
                               nreq == [req EXCEPT !.Method = m[2]]
                           IN  [err |-> "",
                                rpcReq |-> [req |-> nreq, msg |-> RequestJSON(nreq),
                                            srcUrl |-> src, dstUrl |-> r.DstUrl]]

(***************************************************************************)
(* State.                                                                  *)
(***************************************************************************)
VARIABLES
    \* configuration of the HttpForwarder the session is served by
    allowedHeaders,        \* hf.allowedHeaders
    multipleRules,         \* hf.multipleRules ({} in single mode)
    maxParallelRequests,   \* hf.maxParallelRequests
    \* the environment of a run: the frames the client may send and how many,
    \* the answers the upstream may give, the watchers that may connect and
    \* the addresses they may ask for
    env,
    \* the session: Handler's reader loop and its requestForwarder
    rpc,                   \* position of the reader in Handler
    msg,                   \* the frame last received
    pending,               \* rpcReq of the frame waiting for a semaphore slot
    headers,               \* rf.headers
    sem,                   \* len(rf.maxParallelRequest)
    workers,               \* the goroutines spawned by Handler, in spawn order
    replies,               \* frames written to the WebSocket
    nread,                 \* frames received so far
    wsClosed,              \* the WebSocket is closed (Handler has returned)
    lastSet,               \* history: value of the last accepted control frame per header
    \* app/debug.go
    events,                \* debug.events
    traceRequests,         \* debug.traceRequests
    sessions,              \* loop's sessions map (its keys)
    tracers,               \* loop's tracers map: <<target, watcher>> pairs
    lpc,                   \* position of debugApp.loop
    lcur,                  \* the event loop is fanning out
    lpend,                 \* watchers the event is still to be sent to
    wpc,                   \* position of each watcher's wsHandler
    wtarget,               \* addr parameter of each watcher
    inbox,                 \* each watcher's info channel
    inboxClosed,           \* the info channel was closed
    delivered,             \* history: the events the loop has sent to each inbox
    \* the metrics of the forwarder (prometheus vectors) and the process
    statActiveConns,       \* value of the gauge for the handler's path
    statBackendRequests,   \* the counter vector: a bag of label triples
    statBackendDurations,  \* the summary vector: observations per label triple
    crashed,               \* the process has died of an unrecovered panic
    published,             \* history: events sent to debug.events, per address and type
    \* a second session served by the same forwarder
    opc,                   \* position of its reader in Handler
    onread,                \* frames it has received
    omsg,                  \* the frame it has just received
    oheaders,              \* rf.headers of its requestForwarder
    oworkers,              \* its goroutines
    \* /debug/conns/
    ops,                   \* debug.ops: closures waiting for the loop
    listed                 \* the session list the last closure was given

cfgVars == <<allowedHeaders, multipleRules, maxParallelRequests, env>>
sessVars == <<rpc, msg, pending, headers, sem, workers, replies, nread, wsClosed, lastSet>>
loopVars == <<sessions, tracers, lpc, lcur, lpend>>
watchVars == <<wpc, wtarget, inbox, inboxClosed, delivered>>
statVars == <<statBackendRequests, statBackendDurations, crashed>>
otherVars == <<opc, onread, omsg, oheaders, oworkers>>
opsVars == <<ops, listed>>
vars == <<cfgVars, sessVars, events, traceRequests, loopVars, watchVars,
          statVars, statActiveConns, published, otherVars, opsVars>>

\* RemoteAddr of the session, and an address no session ever has
SessionAddr == "s1"
OtherAddr == "s2"
NoAddr == "none"
Watchers == {"w1", "w2"}

\* ws.Request().URL.Path: "/" for the multi-mode handler, the rule's src otherwise
Path == IF multipleRules = {} THEN <<"/", "r">> ELSE <<"/">>
\* hf.dstUrl: the rule's dst, "*" for the multi-mode handler
DstUrl == IF multipleRules = {} THEN "http://r" ELSE "*"

\* what client.Do and ioutil.ReadAll can give: 200 with a readable body, 200
\* with a body whose read fails, two other statuses, a transport error, a
\* timeout (timeout: the error has a Timeout method that answers true); body
\* is what the upstream wrote (what ReadAll had read when it failed)
ok200 == [err |-> "", timeout |-> FALSE, httpCode |-> 200, readErr |-> "", body |-> "result"]
readFail == [err |-> "", timeout |-> FALSE, httpCode |-> 200, readErr |-> "unexpected EOF", body |-> "res"]
st502 == [err |-> "", timeout |-> FALSE, httpCode |-> 502, readErr |-> "", body |-> "bad gateway"]
st404 == [err |-> "", timeout |-> FALSE, httpCode |-> 404, readErr |-> "", body |-> "not found"]
refused == [err |-> "connection refused", timeout |-> FALSE, httpCode |-> 0, readErr |-> "", body |-> ""]
timedOut == [err |-> "Client.Timeout exceeded", timeout |-> TRUE, httpCode |-> 0, readErr |-> "", body |-> ""]

\* -headers: with and without Authorization; x-t is not in canonical form
AllowAuth == {sAuthorization, nXt}
AllowNoAuth == {nXt}

(***************************************************************************)
(* The runs explored. Each scenario fixes a configuration of the forwarder *)
(* and an environment; a behaviour starts in one of them.                  *)
(***************************************************************************)
\* which of hf.statBackendRequests, hf.statBackendDurations and
\* hf.statActiveConns are set (not nil)
Sinks(requests, durations, conns) ==
    [requests |-> requests, durations |-> durations, conns |-> conns]
AllSinks == Sinks(TRUE, TRUE, TRUE)
NoSinks == Sinks(FALSE, FALSE, FALSE)

\* a scenario has every sink set and no second session unless it says so
\* a control frame the forwarder refuses
OtherFrame == SetFrame(nEvil, <<"v">>)

Scenario(allowed, rules, limit, frames, nframes, outcomes, watchers, targets) ==
    [allowed |-> allowed, rules |-> rules, limit |-> limit,
     env |-> [frames |-> frames, nframes |-> nframes, outcomes |-> outcomes,
              watchers |-> watchers, targets |-> targets,
              sinks |-> AllSinks, oframes |-> 0, other |-> FALSE, viewer |-> FALSE,
              sendFails |-> FALSE, otherFrames |-> {OtherFrame}]]
WithSinks(sc, sinks) == [sc EXCEPT !.env.sinks = sinks]
WithOther(sc, n) == [sc EXCEPT !.env.other = TRUE, !.env.oframes = n]
\* the client stops receiving while it still sends: a Send may fail while
\* Receive still succeeds
WithFailingSends(sc) == [sc EXCEPT !.env.sendFails = TRUE]
\* the frames the client of the second session sends
WithOtherFrames(sc, fs) == [sc EXCEPT !.env.otherFrames = fs]
\* someone opens /debug/conns/ during the run
WithViewer(sc) == [sc EXCEPT !.env.viewer = TRUE]

\* sticky headers: values with and without a space, overwritten
ScSticky ==
    Scenario(AllowAuth, {}, MaxParallel,
             {SetFrame(sAuthorization, <<"v">>), SetFrame(sAuthorization, <<"w">>),
              SetFrame(sAuthorization, <<"v", " ", "w">>), Call(mRM, <<"1">>)},
             MaxFrames, {ok200, st502}, {}, {})
\* a name in non-canonical form, a refused name, AUTH
ScNames ==
    Scenario(AllowAuth, {}, MaxParallel,
             {SetFrame(nXt, <<"v">>), SetFrame(nEvil, <<"v">>), AuthFrame(<<"w">>),
              Call(mM, Quoted(<<"x">>))},
             MaxFrames, {ok200, timedOut}, {}, {})
\* Authorization not allowed, multi mode
ScNoAuth ==
    Scenario(AllowNoAuth, ProxyRules, MaxParallel,
             {AuthFrame(<<"v">>), SetFrame(sAuthorization, <<"v">>),
              SetFrame(nXt, <<"v", " ", "w">>), Call(mRM, <<"1">>)},
             MaxFrames, {readFail, refused}, {}, {})
\* control frames without a value, without a name, with an empty value
ScBare ==
    Scenario(AllowAuth, {}, MaxParallel,
             {BareSetFrame(sAuthorization), BareSetFrame(<<>>), BareSetFrame(nEvil),
              SetFrame(sAuthorization, <<>>), AuthFrame(<<>>), Call(mRM, <<"1">>)},
             MaxFrames, {ok200}, {}, {})
\* requests only, multi mode and single mode
ScMulti ==
    Scenario(AllowAuth, ProxyRules, MaxParallel, RpcFrames \cup {Notification(mM)},
             MaxFrames, {st404}, {}, {})
ScSingle ==
    Scenario(AllowAuth, {}, MaxParallel,
             {Call(mQM, <<"1">>), Obj(<<>>), Ctl(<<"x">>)},
             MaxFrames, {readFail}, {}, {})
\* a forwarder made with maxParallelRequests = 0
ScNoSlot ==
    Scenario(AllowAuth, {}, 0,
             {SetFrame(sAuthorization, <<"v">>), Call(mRM, <<"1">>)},
             MaxFrames, {ok200}, {}, {})
\* upstream failures only
ScErrors ==
    Scenario(AllowAuth, {}, MaxParallel,
             {Call(mRM, <<"1">>)},
             MaxFrames, {st502, refused}, {}, {})
\* one watcher, of the session or of an address without session
ScWatcher ==
    Scenario(AllowAuth, {}, MaxParallel,
             {SetFrame(sAuthorization, <<"v">>), Call(mRM, <<"1">>)},
             MaxFrames - 1, {ok200}, {"w1"}, {SessionAddr, NoAddr})
\* two watchers, of the session or of an address without session; control
\* frames only
ScWatchers ==
    Scenario(AllowAuth, {}, MaxParallel,
             {AuthFrame(<<"v">>)},
             MaxFrames, {ok200}, {"w1", "w2"}, {SessionAddr, NoAddr})

\* a forwarder whose SetStats was never called
ScNoStats ==
    WithSinks(Scenario(AllowAuth, {}, MaxParallel,
                       {Call(mRM, <<"1">>)},
                       MaxFrames - 1, {ok200, timedOut}, {}, {}),
              NoSinks)
\* SetStats with one of the two request vectors nil
ScCounterOnly ==
    WithSinks(Scenario(AllowAuth, {}, MaxParallel,
                       {Call(mRM, <<"1">>)},
                       MaxFrames - 1, {ok200}, {}, {}),
              Sinks(TRUE, FALSE, TRUE))
ScSummaryOnly ==
    WithSinks(Scenario(AllowAuth, {}, MaxParallel,
                       {Call(mRM, <<"1">>)},
                       MaxFrames - 1, {st502}, {}, {}),
              Sinks(FALSE, TRUE, FALSE))
\* two sessions on the forwarder, one of them watched
ScTwo ==
    WithOther(Scenario(AllowAuth, {}, MaxParallel,
                       {AuthFrame(<<"v">>)},
                       MaxFrames + 1, {ok200}, {"w1"}, {SessionAddr}),
              MaxFrames - 1)
\* two sessions on the forwarder that both set Authorization; the second
\* one calls
ScShared ==
    WithOtherFrames(
        WithOther(WithSinks(Scenario(AllowAuth, {}, MaxParallel,
                                     {SetFrame(sAuthorization, <<"v">>)},
                                     MaxFrames - 1, {ok200}, {}, {}),
                            NoSinks),
                  MaxFrames),
        {SetFrame(sAuthorization, <<"w">>), Call(mRM, <<"2">>)})
\* replies that cannot be written while frames still arrive
ScHalfClosed ==
    WithFailingSends(Scenario(AllowAuth, {}, MaxParallel,
                              {Call(mRM, <<"1">>)},
                              MaxFrames, {ok200}, {}, {}))
\* two sessions and a look at /debug/conns/
ScIndex ==
    WithViewer(WithOther(Scenario(AllowAuth, {}, MaxParallel,
                                  {BareSetFrame(sAuthorization)},
                                  MaxFrames - 1, {ok200}, {}, {}),
                         0))

Scenarios == {ScSticky, ScNames, ScNoAuth, ScBare, ScMulti, ScSingle,
              ScNoSlot, ScErrors, ScWatcher, ScWatchers,
              ScShared, ScNoStats, ScCounterOnly, ScSummaryOnly, ScTwo, ScIndex, ScHalfClosed}

NoOutcome == [err |-> "", timeout |-> FALSE, httpCode |-> 0, readErr |-> "", body |-> ""]

NoFrame == Ctl(<<>>)
NoRpcReq == [req |-> ZeroRequest, msg |-> NoFrame, srcUrl |-> <<>>, dstUrl |-> ""]
\* no closure has run yet
NoList == {NoAddr}
NoEvent == [msgType |-> "none", addr |-> NoAddr, data |-> NoFrame, seq |-> 0, req |-> 0]

Init ==
    /\ \E sc \in Scenarios :
          /\ allowedHeaders = sc.allowed
          /\ multipleRules = sc.rules
          /\ maxParallelRequests = sc.limit
          /\ env = sc.env
    /\ rpc = "start"
    /\ msg = NoFrame
    /\ pending = NoRpcReq
    /\ headers = {}
    /\ sem = 0
    /\ workers = <<>>
    /\ replies = {}
    /\ nread = 0
    /\ wsClosed = FALSE
    /\ lastSet = {}
    /\ events = <<>>
    /\ traceRequests = <<>>
    /\ sessions = {}
    /\ tracers = {}
    /\ lpc = "select"
    /\ lcur = NoEvent
    /\ lpend = {}
    /\ wpc = [w \in Watchers |-> "idle"]
    /\ wtarget = [w \in Watchers |-> NoAddr]
    /\ inbox = [w \in Watchers |-> <<>>]
    /\ inboxClosed = [w \in Watchers |-> FALSE]
    /\ delivered = [w \in Watchers |-> <<>>]
    /\ statActiveConns = 0
    /\ statBackendRequests = EmptyBag
    /\ statBackendDurations = EmptyBag
    /\ crashed = FALSE
    /\ published = EmptyBag
    /\ opc = "start"
    /\ onread = 0
    /\ omsg = NoFrame
    /\ oheaders = {}
    /\ oworkers = <<>>
    /\ ops = 0
    /\ listed = NoList

\* seq and req are history tags: the rank of the event among all sends to
\* debug.events, and the rank of the frame it belongs to among the frames
\* of its session
debugMessageOf(a, t, d) == [msgType |-> t, addr |-> a, data |-> d, seq |-> 0, req |-> 0]
ForRequest(e, n) == [e EXCEPT !.req = n]
debugMessage(t, d) == debugMessageOf(SessionAddr, t, d)

\* debug.events <- e, for each e of es in turn; the history counts them
Publish(es) ==
    /\ Len(events) + Len(es) <= ChanCap
    /\ events' = events \o [i \in 1..Len(es) |->
                             [es[i] EXCEPT !.seq = BagCardinality(published) + i]]
    /\ published' = published (+) [p \in {<<es[i].addr, es[i].msgType>> : i \in 1..Len(es)} |-> 1]
Published(a, t) == IF <<a, t>> \in DOMAIN published THEN published[<<a, t>>] ELSE 0

\* WithLabelValues(path).Inc() and the deferred Dec() on the gauge, both
\* inside the test of hf.statActiveConns
GaugeInc(sinks, g) == IF sinks.conns THEN g + 1 ELSE g
\* a variant whose deferred Dec is missing
GaugeDecNever(sinks, g) == g
GaugeDec(sinks, g) == IF sinks.conns THEN g - 1 ELSE g

\* a variant of the deferred send that publishes nothing
ExitEventsNone(a) == <<>>
\* what the deferred functions of Handler send to debug.events
ExitEvents(a) == <<debugMessageOf(a, "clientDisconnected", NoFrame)>>

(***************************************************************************)
(* HttpForwarder.Handler: the reader.                                      *)
(***************************************************************************)
\* the server calls Handler for an accepted connection: the gauge of the
\* path is incremented and its decrement deferred
HandlerStart ==
    /\ ~crashed
    /\ rpc = "start"
    /\ statActiveConns' = GaugeInc(env.sinks, statActiveConns)
    /\ rpc' = "connect"
    /\ UNCHANGED <<cfgVars, msg, pending, headers, sem, workers, replies, nread,
                   wsClosed, lastSet, events, traceRequests, loopVars, watchVars,
                   statVars, published, otherVars, opsVars>>

\* debug.events <- clientConnected, then the reader loop starts
HandlerConnect ==
    /\ ~crashed
    /\ rpc = "connect"
    /\ Publish(<<debugMessage("clientConnected", NoFrame)>>)
    /\ rpc' = "recv"
    /\ UNCHANGED <<cfgVars, msg, pending, headers, sem, workers, replies, nread,
                   wsClosed, lastSet, traceRequests, loopVars, watchVars,
                   statVars, statActiveConns, otherVars, opsVars>>

\* websocket.Message.Receive returns a frame
HandlerReceive ==
    /\ ~crashed
    /\ rpc = "recv"
    /\ nread < env.nframes
    /\ \E f \in env.frames : msg' = f
    /\ nread' = nread + 1
    /\ rpc' = "publish"
    /\ UNCHANGED <<cfgVars, pending, headers, sem, workers, replies, wsClosed, lastSet,
                   events, traceRequests, loopVars, watchVars,
                   statVars, statActiveConns, published, otherVars, opsVars>>

\* websocket.Message.Receive returns io.EOF or another error: break
HandlerReceiveErr ==
    /\ ~crashed
    /\ rpc = "recv"
    /\ rpc' = "closing"
    /\ UNCHANGED <<cfgVars, msg, pending, headers, sem, workers, replies, nread,
                   wsClosed, lastSet, events, traceRequests, loopVars, watchVars,
                   statVars, statActiveConns, published, otherVars, opsVars>>

\* the value a control frame asks for: the remainder of the frame after the
\* first space that follows the name (all of it after "AUTH ")
ControlName(m) ==
    IF HasPrefix(m.text, sAUTH) THEN sAuthorization
    ELSE SplitN2(SliceFrom(m.text, 4), " ")[1]
ControlValue(m) ==
    IF HasPrefix(m.text, sAUTH) THEN SliceFrom(m.text, 5)
    ELSE SplitN2(SliceFrom(m.text, 4), " ")[2]
IsControl(m) == HasPrefix(m.text, sAUTH) \/ HasPrefix(m.text, sSET)
\* a control frame that names an allow-listed header and gives it a value
IsAccepted(m) ==
    /\ IsControl(m)
    /\ HasPrefix(m.text, sSET) => Len(SplitN2(SliceFrom(m.text, 4), " ")) = 2
    /\ ControlName(m) \in allowedHeaders

\* whether websocket.Message.Send can succeed, fail, or both
SendResults ==
    IF wsClosed THEN {FALSE}
    ELSE IF rpc \in {"closing", "closed"} \/ env.sendFails THEN {TRUE, FALSE}
    ELSE {TRUE}

\* websocket.Message.Send wrote frame r: replies gains the frame, told apart
\* from an equal frame written before by the same sender
Sent(r) == replies \cup {[r EXCEPT !.n = r.n + Cardinality({q \in replies : q.w = r.w /\ r.w # 0})]}

\* a variant of the id test that always answers
HasIdAlways(req) == TRUE

\* rpcReq.req.Id != nil: the request carries an id to answer to
HasId(req) == req.Id # NilId

\* a variant of the loop body without its two "continue"s: whatever the
\* checks returned, the frame goes on to the semaphore
FrameOutcomeFallThrough(c, rw) == "dispatch"

\* the branch one iteration of the reader loop takes: "continue" after a
\* control frame, "continue" after a rewrite error, or on to the semaphore
FrameOutcome(c, rw) ==
    IF c.handled THEN "control"
    ELSE IF rw.err # "" THEN "reject"
    ELSE "dispatch"

\* a variant of the loop body that tests for a control frame first and
\* traces only the frames that are none
RequestEventsNoControl(a, m, n) ==
    IF HasPrefix(m.text, sAUTH) \/ HasPrefix(m.text, sSET) THEN <<>>
    ELSE <<ForRequest(debugMessageOf(a, "wsRequest", m), n)>>

\* debug.events <- debugMessage{msgType: wsRequest, req: ws.Request(), data:
\* msg}: the first statement after Receive, for every frame
RequestEvents(a, m, n) == <<ForRequest(debugMessageOf(a, "wsRequest", m), n)>>

\* debug.events <- wsRequest, then checkAndSetHeaders, rewriteRequest and, on
\* a rewrite error, the error reply: one iteration of the loop up to the
\* semaphore
HandlerFrame ==
    /\ ~crashed
    /\ rpc = "publish"
    /\ Publish(RequestEvents(SessionAddr, msg, nread))
    /\ LET c == checkAndSetHeaders(allowedHeaders, headers, msg)
           rw == rewriteRequest(multipleRules, Path, msg, DstUrl)
       IN  IF FrameOutcome(c, rw) = "control"
           THEN /\ rpc' = IF c.panic THEN "closing" ELSE "recv"
                /\ headers' = c.headers
                /\ lastSet' = IF ~c.panic /\ IsAccepted(msg)
                              THEN HeaderSet(lastSet, ControlName(msg), ControlValue(msg))
                              ELSE lastSet
                /\ UNCHANGED <<pending, replies>>
           ELSE IF FrameOutcome(c, rw) = "reject"
           THEN /\ rpc' = "recv"
                /\ \E ok \in SendResults :
                      replies' = IF HasId(rw.rpcReq.req) /\ ok
                                 THEN Sent([w |-> 0, n |-> nread, frame |-> msg, body |-> "error",
                                            rpcErr |-> NewJsonRpcErr(rw.rpcReq.req, JsonRpcMethodNotFound, rw.err)])
                                 ELSE replies
                /\ UNCHANGED <<pending, headers, lastSet>>
           ELSE /\ rpc' = "acquire"
                /\ pending' = rw.rpcReq
                /\ UNCHANGED <<headers, replies, lastSet>>
    /\ UNCHANGED <<cfgVars, msg, sem, workers, nread, wsClosed,
                   traceRequests, loopVars, watchVars,
                   statVars, statActiveConns, otherVars, opsVars>>


\* a variant of the semaphore without capacity check
CanAcquireUnbounded(held, limit) == TRUE

\* a variant of the semaphore that lets one send too many through
CanAcquireOffByOne(held, limit) == held <= limit

\* a send on rf.maxParallelRequest, a channel made with capacity limit,
\* goes through when fewer than limit values are in it
CanAcquire(held, limit) == held < limit

\* a variant in which the header map belongs to the HttpForwarder, as
\* customHeaders once did: every session reads and writes the one map
SessionHeadersShared(own, others) == own \cup others

\* rf.headers: the map newRequestForwarder makes for the connection
SessionHeaders(own, others) == own

\* rf.maxParallelRequest <- struct{}{}; go func(rpcReq, rf.copyHeaders())
HandlerDispatch ==
    /\ ~crashed
    /\ rpc = "acquire"
    /\ CanAcquire(sem, maxParallelRequests)
    /\ sem' = sem + 1
    /\ workers' = Append(workers,
                    [pc |-> "post", frame |-> msg, rpcReq |-> pending,
                     headers |-> copyHeaders(SessionHeaders(headers, oheaders)), posted |-> {},
                     out |-> NoOutcome, rpcErr |-> NoRpcErr, body |-> "",
                     req |-> nread])
    /\ pending' = NoRpcReq
    /\ rpc' = "recv"
    /\ UNCHANGED <<cfgVars, msg, headers, replies, nread, wsClosed, lastSet,
                   events, traceRequests, loopVars, watchVars,
                   statVars, statActiveConns, published, otherVars, opsVars>>

\* the deferred functions run, last registered first: debug.events <-
\* clientDisconnected, then the gauge's Dec; Handler returns and the server
\* closes the connection
HandlerReturn ==
    /\ ~crashed
    /\ rpc = "closing"
    /\ Publish(ExitEvents(SessionAddr))
    /\ statActiveConns' = GaugeDec(env.sinks, statActiveConns)
    /\ rpc' = "closed"
    /\ wsClosed' = TRUE
    /\ UNCHANGED <<cfgVars, msg, pending, headers, sem, workers, replies, nread,
                   lastSet, traceRequests, loopVars, watchVars,
                   statVars, otherVars, opsVars>>

(***************************************************************************)
(* The dispatch worker: the goroutine of Handler.                          *)
(***************************************************************************)
SetWorker(w, r) == [workers EXCEPT ![w] = r]

\* a variant in which the goroutine reads the session's live header map, as
\* the Handler of app/forwarder.go did
WorkerHeadersLive(w) == headers

\* the headers argument of the goroutine: the copy made when it was spawned
WorkerHeaders(w) == workers[w].headers

\* doPostRequest up to client.Do: req.Header = headers plus Content-Type
WorkerPost(w) ==
    /\ ~crashed
    /\ workers[w].pc = "post"
    /\ workers' = SetWorker(w, [workers[w] EXCEPT
                     !.pc = "inflight",
                     !.posted = HeaderAdd(WorkerHeaders(w), sContentType, sApplicationJson)])
    /\ UNCHANGED <<cfgVars, rpc, msg, pending, headers, sem, replies, nread, wsClosed,
                   lastSet, events, traceRequests, loopVars, watchVars,
                   statVars, statActiveConns, published, otherVars, opsVars>>

\* the deferred function of doPostRequest: the rpcErr it returns
PostRpcErr(postData, out) ==
    IF out.err = "" /\ out.httpCode = 200 THEN NoRpcErr
    ELSE NewJsonRpcErrResponse(postData, out.httpCode, out.err)

\* client.Do returns; doPostRequest returns (rc, err, rpcErr)
WorkerReturn(w) ==
    /\ ~crashed
    /\ workers[w].pc = "inflight"
    /\ \E out \in env.outcomes :
          workers' = SetWorker(w, [workers[w] EXCEPT
                        !.pc = "release",
                        !.out = out,
                        !.rpcErr = PostRpcErr(workers[w].rpcReq.msg, out)])
    /\ UNCHANGED <<cfgVars, rpc, msg, pending, headers, sem, replies, nread, wsClosed,
                   lastSet, events, traceRequests, loopVars, watchVars,
                   statVars, statActiveConns, published, otherVars, opsVars>>

\* a variant of "process response" in which the body read is assigned to a
\* shadowing variable, so that resp stays empty
ProcessResponseShadowed(wk) ==
    IF ~wk.rpcErr.nil
    THEN [stop |-> FALSE, rpcErr |-> wk.rpcErr, body |-> "error"]
    ELSE IF wk.out.err # ""
    THEN [stop |-> TRUE, rpcErr |-> NoRpcErr, body |-> ""]
    ELSE IF wk.out.readErr # ""
    THEN [stop |-> FALSE, rpcErr |-> NewJsonRpcErr(wk.rpcReq.req, 200, wk.out.readErr),
          body |-> "error"]
    ELSE [stop |-> FALSE, rpcErr |-> NoRpcErr, body |-> ""]

\* a variant of "process response" that builds the error of a failed body
\* read as the Handler of app/forwarder.go did: NewJsonRpcErrResponse(msg,
\* -200, err)
ProcessResponseOld(wk) ==
    IF ~wk.rpcErr.nil
    THEN [stop |-> FALSE, rpcErr |-> wk.rpcErr, body |-> "error"]
    ELSE IF wk.out.err # ""
    THEN [stop |-> TRUE, rpcErr |-> NoRpcErr, body |-> ""]
    ELSE IF wk.out.readErr # ""
    THEN [stop |-> FALSE,
          rpcErr |-> NewJsonRpcErrResponse(wk.rpcReq.msg, -200, wk.out.readErr),
          body |-> "error"]
    ELSE [stop |-> FALSE, rpcErr |-> NoRpcErr, body |-> wk.out.body]

\* a variant of "process response" that returns without a reply when the
\* body cannot be read
ProcessResponseSilent(wk) ==
    IF ~wk.rpcErr.nil
    THEN [stop |-> FALSE, rpcErr |-> wk.rpcErr, body |-> "error"]
    ELSE IF wk.out.err # "" \/ wk.out.readErr # ""
    THEN [stop |-> TRUE, rpcErr |-> NoRpcErr, body |-> ""]
    ELSE [stop |-> FALSE, rpcErr |-> NoRpcErr, body |-> wk.out.body]

\* "process response" of the goroutine: [stop, rpcErr, body].  stop is the
\* bare return taken when err is set and there is no rpcErr.
ProcessResponse(wk) ==
    IF ~wk.rpcErr.nil
    THEN [stop |-> FALSE, rpcErr |-> wk.rpcErr, body |-> "error"]
    ELSE IF wk.out.err # ""
    THEN [stop |-> TRUE, rpcErr |-> NoRpcErr, body |-> ""]
    ELSE IF wk.out.readErr # ""
    THEN [stop |-> FALSE, rpcErr |-> NewJsonRpcErr(wk.rpcReq.req, 200, wk.out.readErr),
          body |-> "error"]
    ELSE [stop |-> FALSE, rpcErr |-> NoRpcErr, body |-> wk.out.body]

Reply(w) == [w |-> w, n |-> 1, frame |-> workers[w].frame, body |-> workers[w].body,
             rpcErr |-> workers[w].rpcErr]

\* a goroutine that has returned
Finished == [pc |-> "done", frame |-> NoFrame, rpcReq |-> NoRpcReq, headers |-> {},
             posted |-> {}, out |-> NoOutcome, rpcErr |-> NoRpcErr, body |-> "",
             req |-> 0]

\* a variant of the release that an early return on a failed call skips
SlotsAfterReturnOnSuccess(held, wk) == IF wk.out.err # "" THEN held ELSE held - 1

\* <-rf.maxParallelRequest: one value leaves the channel, whatever
\* doPostRequest returned
SlotsAfterReturn(held, wk) == held - 1

\* <-rf.maxParallelRequest, right after doPostRequest returned
WorkerRelease(w) ==
    /\ ~crashed
    /\ workers[w].pc = "release"
    /\ sem' = SlotsAfterReturn(sem, workers[w])
    /\ workers' = SetWorker(w, [workers[w] EXCEPT !.pc = "read"])
    /\ UNCHANGED <<cfgVars, rpc, msg, pending, headers, replies, nread, wsClosed,
                   lastSet, events, traceRequests, loopVars, watchVars,
                   statVars, statActiveConns, published, otherVars, opsVars>>

\* a variant of the status label that does not look at Timeout()
StatusOfAnyError(out, rpcErr) == IF ~rpcErr.nil THEN "error" ELSE "ok"

\* the status label statRequest computes: "ok", "error" with an rpcErr,
\* "timeout" when err has a Timeout method that answers true
StatusOf(out, rpcErr) ==
    IF out.err # "" /\ out.timeout THEN "timeout"
    ELSE IF ~rpcErr.nil THEN "error"
    ELSE "ok"
\* the code label: "200", or strconv.Itoa(rpcErr.Error.Code)
CodeOf(rpcErr) == IF ~rpcErr.nil THEN rpcErr.Code ELSE 200

\* statRequest: [panic, requests, durations].  It returns at once when both
\* vectors are nil; otherwise it calls WithLabelValues on each of them, and
\* the call on a nil vector is a nil pointer dereference
statRequest(sinks, requests, durations, rpcReq, out, rpcErr) ==
    IF ~sinks.durations /\ ~sinks.requests
    THEN [panic |-> FALSE, requests |-> requests, durations |-> durations]
    ELSE IF ~sinks.requests
    THEN [panic |-> TRUE, requests |-> requests, durations |-> durations]
    ELSE LET counted == requests (+) SetToBag({<<rpcReq.srcUrl, rpcReq.req.Method,
                                                StatusOf(out, rpcErr)>>})
         IN  IF ~sinks.durations
             THEN [panic |-> TRUE, requests |-> counted, durations |-> durations]
             ELSE [panic |-> FALSE, requests |-> counted,
                   durations |-> durations (+) SetToBag({<<rpcReq.srcUrl, rpcReq.req.Method,
                                                          CodeOf(rpcErr)>>})]

\* statRequest, then the response is processed: the body is read, the error
\* envelope built.  A panic in statRequest is not recovered in the goroutine:
\* the process dies.
WorkerProcess(w) ==
    /\ ~crashed
    /\ workers[w].pc = "read"
    /\ LET st == statRequest(env.sinks, statBackendRequests, statBackendDurations,
                             workers[w].rpcReq, workers[w].out, workers[w].rpcErr)
           p == ProcessResponse(workers[w])
       IN  /\ statBackendRequests' = st.requests
           /\ statBackendDurations' = st.durations
           /\ crashed' = st.panic
           /\ workers' = IF st.panic THEN SetWorker(w, [workers[w] EXCEPT !.pc = "panic"])
                         ELSE IF p.stop THEN SetWorker(w, Finished)
                         ELSE SetWorker(w, [workers[w] EXCEPT
                             !.pc = "trace",
                             !.rpcErr = p.rpcErr,
                             !.body = p.body])
    /\ UNCHANGED <<cfgVars, rpc, msg, pending, headers, sem, replies, nread, wsClosed,
                   lastSet, events, traceRequests, loopVars, watchVars,
                   statActiveConns, published, otherVars, opsVars>>

\* debug.events <- httpResponse, with the response as data
WorkerTrace(w) ==
    /\ ~crashed
    /\ workers[w].pc = "trace"
    /\ Publish(<<ForRequest(debugMessage("httpResponse", Reply(w)), workers[w].req)>>)
    /\ workers' = SetWorker(w, [workers[w] EXCEPT !.pc = "send"])
    /\ UNCHANGED <<cfgVars, rpc, msg, pending, headers, sem, replies, nread, wsClosed,
                   lastSet, traceRequests, loopVars, watchVars,
                   statVars, statActiveConns, otherVars, opsVars>>

\* a variant in which a failed Send ends the session's reader
ReaderAfterSendClosing(position, ok) == IF ok THEN position ELSE "closing"

\* what the goroutine does to the reader after its Send: on an error it
\* logs and returns, the reader is where it was
ReaderAfterSend(position, ok) == position

\* websocket.Message.Send(ws, resp): the frame is written unless the
\* connection is closed; after the read side failed, or when the client has
\* stopped receiving, the write may fail
WorkerSend(w) ==
    /\ ~crashed
    /\ workers[w].pc = "send"
    /\ \E ok \in SendResults :
          /\ replies' = IF ok THEN Sent(Reply(w)) ELSE replies
          /\ rpc' = ReaderAfterSend(rpc, ok)
    /\ workers' = SetWorker(w, Finished)
    /\ UNCHANGED <<cfgVars, msg, pending, headers, sem, nread, wsClosed,
                   lastSet, events, traceRequests, loopVars, watchVars,
                   statVars, statActiveConns, published, otherVars, opsVars>>

(***************************************************************************)
(* debugApp.loop.                                                          *)
(***************************************************************************)

\* a variant of the map update that forgets to delete
SessionsAfterKeep(m, e) == IF e.msgType = "clientConnected" THEN m \cup {e.addr} ELSE m

\* sessions[addr] = req on connect, delete(sessions, addr) on disconnect
SessionsAfter(m, e) ==
    IF e.msgType = "clientConnected" THEN m \cup {e.addr}
    ELSE IF e.msgType = "clientDisconnected" THEN m \ {e.addr}
    ELSE m

\* a variant of the lookup that takes the watchers of every target
TracersOfAny(t) == {p[2] : p \in tracers}

\* tracers[addr]: the watchers registered under one target
TracersOf(t) == {p[2] : p \in {q \in tracers : q[1] = t}}

\* a variant of the disconnect that leaves the target's entry in tracers
TracersAfterCloseKeep(m, addr) == m

\* delete(tracers, e.req.RemoteAddr), after the inboxes are closed
TracersAfterClose(m, addr) == {p \in m : p[1] # addr}

\* close(l.Msg) of a channel that is closed already panics
ClosePanics(addr) == \E w \in TracersOf(addr) : inboxClosed[w]

\* case e := <-d.events
LoopEvent ==
    /\ ~crashed
    /\ lpc = "select"
    /\ events # <<>>
    /\ LET e == Head(events)
       IN  /\ events' = Tail(events)
           /\ CASE e.msgType = "clientConnected" ->
                     /\ sessions' = SessionsAfter(sessions, e)
                     /\ UNCHANGED <<tracers, lpc, lcur, lpend, inboxClosed, crashed>>
                [] e.msgType = "clientDisconnected" ->
                     /\ sessions' = SessionsAfter(sessions, e)
                     /\ IF ClosePanics(e.addr)
                        THEN /\ lpc' = "panic"
                             /\ crashed' = TRUE
                             /\ UNCHANGED <<tracers, inboxClosed>>
                        ELSE /\ inboxClosed' = [w \in Watchers |->
                                                  inboxClosed[w] \/ w \in TracersOf(e.addr)]
                             /\ tracers' = TracersAfterClose(tracers, e.addr)
                             /\ UNCHANGED <<lpc, crashed>>
                     /\ UNCHANGED <<lcur, lpend>>
                [] OTHER ->
                     /\ lpend' = TracersOf(e.addr)
                     /\ lcur' = IF TracersOf(e.addr) = {} THEN NoEvent ELSE e
                     /\ lpc' = IF TracersOf(e.addr) = {} THEN "select" ELSE "fanout"
                     /\ UNCHANGED <<sessions, tracers, inboxClosed, crashed>>
    /\ UNCHANGED <<delivered, cfgVars, sessVars, traceRequests, wpc, wtarget, inbox,
                   statBackendRequests, statBackendDurations, statActiveConns,
                   published, otherVars, opsVars>>

\* a variant of the range loop that does not move on to the next tracer
PendingAfterKeep(pend, w) == pend

\* for _, tracer := range tracers[addr]: each tracer is visited once
PendingAfter(pend, w) == pend \ {w}

\* what the history keeps of an event
Tag(e) == [seq |-> e.seq, msgType |-> e.msgType, addr |-> e.addr, req |-> e.req]

\* tracer.Msg <- e, for one tracer of the range loop; a send on a closed
\* channel panics
LoopDeliver(w) ==
    /\ ~crashed
    /\ lpc = "fanout"
    /\ w \in lpend
    /\ IF inboxClosed[w]
       THEN /\ lpc' = "panic"
            /\ crashed' = TRUE
            /\ UNCHANGED <<inbox, lpend, lcur, delivered>>
       ELSE /\ Len(inbox[w]) < ChanCap
            /\ inbox' = [inbox EXCEPT ![w] = Append(@, lcur)]
            /\ delivered' = [delivered EXCEPT ![w] = Append(@, Tag(lcur))]
            /\ lpend' = PendingAfter(lpend, w)
            /\ lpc' = IF lpend' = {} THEN "select" ELSE "fanout"
            /\ lcur' = IF lpend' = {} THEN NoEvent ELSE lcur
            /\ UNCHANGED crashed
    /\ UNCHANGED <<cfgVars, sessVars, events, traceRequests, sessions, tracers,
                   wpc, wtarget, inboxClosed,
                   statBackendRequests, statBackendDurations, statActiveConns,
                   published, otherVars, opsVars>>

\* a variant of the cancel that deletes the target's whole entry
TracersAfterDropTarget(m, tr) ==
    IF tr.Cancel THEN {p \in m : p[1] # tr.TargetAddr}
    ELSE m \cup {<<tr.TargetAddr, tr.Addr>>}

\* delete(tracers[tr.TargetAddr], tr.Addr) on a cancel, a no-op without
\* such an entry; tracers[tr.TargetAddr][tr.Addr] = tr otherwise
TracersAfter(m, tr) ==
    IF tr.Cancel THEN m \ {<<tr.TargetAddr, tr.Addr>>}
    ELSE m \cup {<<tr.TargetAddr, tr.Addr>>}

\* case tr := <-d.traceRequests
LoopTraceRequest ==
    /\ ~crashed
    /\ lpc = "select"
    /\ traceRequests # <<>>
    /\ LET tr == Head(traceRequests)
       IN  /\ traceRequests' = Tail(traceRequests)
           /\ tracers' = TracersAfter(tracers, tr)
    /\ UNCHANGED <<cfgVars, sessVars, events, sessions, lpc, lcur, lpend, watchVars,
                   statVars, statActiveConns, published, otherVars, opsVars>>

\* case op := <-d.ops: the closure is run on the sessions map and hands the
\* list of its keys to the handler that waits for it
LoopOp ==
    /\ ~crashed
    /\ lpc = "select"
    /\ ops > 0
    /\ ops' = ops - 1
    /\ listed' = sessions
    /\ UNCHANGED <<cfgVars, sessVars, events, traceRequests, loopVars, watchVars,
                   statVars, statActiveConns, published, otherVars>>

\* debugApp.index: d.ops <- func(m clientConns) {...}; it then waits for
\* the list
IndexRequest ==
    /\ ~crashed
    /\ env.viewer
    /\ ops = 0
    /\ listed = NoList
    /\ ops' = ops + 1
    /\ UNCHANGED <<cfgVars, sessVars, events, traceRequests, loopVars, watchVars,
                   statVars, statActiveConns, published, otherVars, listed>>

(***************************************************************************)
(* debugApp.wsHandler: one watcher.                                        *)
(***************************************************************************)
traceRequest(w, t, c) == [Addr |-> w, TargetAddr |-> t, Cancel |-> c]

\* a watcher connects to /debug/conns/ws?addr=t and registers
WatcherRegister(w) ==
    /\ ~crashed
    /\ wpc[w] = "idle"
    /\ w \in env.watchers
    /\ Len(traceRequests) < ChanCap
    /\ \E t \in env.targets :
          /\ wtarget' = [wtarget EXCEPT ![w] = t]
          /\ traceRequests' = Append(traceRequests, traceRequest(w, t, FALSE))
    /\ wpc' = [wpc EXCEPT ![w] = "range"]
    /\ UNCHANGED <<delivered, cfgVars, sessVars, events, loopVars, inbox, inboxClosed,
                   statVars, statActiveConns, published, otherVars, opsVars>>

\* for m := range info: one message, sent to the watcher's WebSocket
WatcherForward(w) ==
    /\ ~crashed
    /\ wpc[w] = "range"
    /\ inbox[w] # <<>>
    /\ inbox' = [inbox EXCEPT ![w] = Tail(@)]
    /\ \E ok \in BOOLEAN : wpc' = [wpc EXCEPT ![w] = IF ok THEN "range" ELSE "cancel"]
    /\ UNCHANGED <<delivered, cfgVars, sessVars, events, traceRequests, loopVars, wtarget, inboxClosed,
                   statVars, statActiveConns, published, otherVars, opsVars>>

\* the range ends: info is closed and drained
WatcherRangeEnd(w) ==
    /\ ~crashed
    /\ wpc[w] = "range"
    /\ inbox[w] = <<>>
    /\ inboxClosed[w]
    /\ wpc' = [wpc EXCEPT ![w] = "cancel"]
    /\ UNCHANGED <<delivered, cfgVars, sessVars, events, traceRequests, loopVars, wtarget, inbox, inboxClosed,
                   statVars, statActiveConns, published, otherVars, opsVars>>

\* the deferred d.traceRequests <- traceRequest{Cancel: true}
WatcherCancel(w) ==
    /\ ~crashed
    /\ wpc[w] = "cancel"
    /\ Len(traceRequests) < ChanCap
    /\ traceRequests' = Append(traceRequests, traceRequest(w, wtarget[w], TRUE))
    /\ wpc' = [wpc EXCEPT ![w] = "exit"]
    /\ UNCHANGED <<delivered, cfgVars, sessVars, events, loopVars, wtarget, inbox, inboxClosed,
                   statVars, statActiveConns, published, otherVars, opsVars>>

(***************************************************************************)
(* A second session of the same HttpForwarder, from another address: its   *)
(* own requestForwarder (headers, semaphore), the same metrics and the     *)
(* same debug.events.  Of its goroutine the return of the call, the        *)
(* release, statRequest and the processing of the response are one step,   *)
(* and so are the trace event and the Send.                                *)
(***************************************************************************)
OtherIds == 1..Len(oworkers)
OtherHeld == Cardinality({k \in OtherIds : oworkers[k].pc \in {"post", "inflight"}})

OtherStart ==
    /\ ~crashed
    /\ opc = "start"
    /\ env.other
    /\ statActiveConns' = GaugeInc(env.sinks, statActiveConns)
    /\ opc' = "connect"
    /\ UNCHANGED <<cfgVars, sessVars, events, traceRequests, loopVars, watchVars,
                   statVars, published, onread, omsg, oheaders, oworkers, opsVars>>

OtherConnect ==
    /\ ~crashed
    /\ opc = "connect"
    /\ Publish(<<debugMessageOf(OtherAddr, "clientConnected", NoFrame)>>)
    /\ opc' = "recv"
    /\ UNCHANGED <<cfgVars, sessVars, traceRequests, loopVars, watchVars,
                   statVars, statActiveConns, onread, omsg, oheaders, oworkers, opsVars>>

OtherReceive ==
    /\ ~crashed
    /\ opc = "recv"
    /\ onread < env.oframes
    /\ onread' = onread + 1
    /\ \E f \in env.otherFrames : omsg' = f
    /\ opc' = "publish"
    /\ UNCHANGED <<cfgVars, sessVars, events, traceRequests, loopVars, watchVars,
                   statVars, statActiveConns, published, oheaders, oworkers, opsVars>>

OtherReceiveErr ==
    /\ ~crashed
    /\ opc = "recv"
    /\ opc' = "closing"
    /\ UNCHANGED <<cfgVars, sessVars, events, traceRequests, loopVars, watchVars,
                   statVars, statActiveConns, published, onread, omsg, oheaders,
                   oworkers, opsVars>>

\* debug.events <- wsRequest, then checkAndSetHeaders and rewriteRequest:
\* one iteration of the loop up to the semaphore
OtherPublish ==
    /\ ~crashed
    /\ opc = "publish"
    /\ Publish(RequestEvents(OtherAddr, omsg, onread))
    /\ LET c == checkAndSetHeaders(allowedHeaders, oheaders, omsg)
           rw == rewriteRequest(multipleRules, Path, omsg, DstUrl)
       IN  IF FrameOutcome(c, rw) = "control"
           THEN /\ opc' = IF c.panic THEN "closing" ELSE "recv"
                /\ oheaders' = c.headers
           ELSE IF FrameOutcome(c, rw) = "reject"
           THEN /\ opc' = "recv"
                /\ UNCHANGED oheaders
           ELSE /\ opc' = "acquire"
                /\ UNCHANGED oheaders
    /\ UNCHANGED <<cfgVars, sessVars, traceRequests, loopVars, watchVars,
                   statVars, statActiveConns, onread, omsg, oworkers, opsVars>>

\* rf.maxParallelRequest <- struct{}{}; go func(rpcReq, rf.copyHeaders())
OtherDispatch ==
    /\ ~crashed
    /\ opc = "acquire"
    /\ CanAcquire(OtherHeld, maxParallelRequests)
    /\ oworkers' = Append(oworkers,
                     [pc |-> "post", frame |-> omsg,
                      rpcReq |-> rewriteRequest(multipleRules, Path, omsg, DstUrl).rpcReq,
                      headers |-> copyHeaders(SessionHeaders(oheaders, headers)),
                      posted |-> {}, out |-> NoOutcome, rpcErr |-> NoRpcErr,
                      body |-> "", req |-> onread])
    /\ opc' = "recv"
    /\ UNCHANGED <<cfgVars, sessVars, events, traceRequests, loopVars, watchVars,
                   statVars, statActiveConns, published, onread, omsg, oheaders, opsVars>>

\* doPostRequest up to client.Do: req.Header = headers plus Content-Type
OtherWorkerPost(k) ==
    /\ ~crashed
    /\ k \in OtherIds
    /\ oworkers[k].pc = "post"
    /\ oworkers' = [oworkers EXCEPT ![k].pc = "inflight",
                                    ![k].posted = HeaderAdd(oworkers[k].headers,
                                                            sContentType, sApplicationJson)]
    /\ UNCHANGED <<cfgVars, sessVars, events, traceRequests, loopVars, watchVars,
                   statVars, statActiveConns, published, opc, onread, omsg, oheaders,
                   opsVars>>

\* client.Do returns, <-rf.maxParallelRequest, statRequest, and the response
\* is processed
OtherWorkerReturn(k) ==
    /\ ~crashed
    /\ k \in OtherIds
    /\ oworkers[k].pc = "inflight"
    /\ \E out \in env.outcomes :
          LET wk == [oworkers[k] EXCEPT
                        !.out = out,
                        !.rpcErr = PostRpcErr(oworkers[k].rpcReq.msg, out)]
              st == statRequest(env.sinks, statBackendRequests, statBackendDurations,
                                wk.rpcReq, wk.out, wk.rpcErr)
              p == ProcessResponse(wk)
          IN  /\ statBackendRequests' = st.requests
              /\ statBackendDurations' = st.durations
              /\ crashed' = st.panic
              /\ oworkers' = [oworkers EXCEPT ![k] =
                                IF st.panic THEN [wk EXCEPT !.pc = "panic"]
                                ELSE IF p.stop THEN [wk EXCEPT !.pc = "done"]
                                ELSE [wk EXCEPT !.pc = "trace", !.rpcErr = p.rpcErr,
                                                !.body = p.body]]
    /\ UNCHANGED <<cfgVars, sessVars, events, traceRequests, loopVars, watchVars,
                   statActiveConns, published, opc, onread, omsg, oheaders, opsVars>>

\* debug.events <- httpResponse, then websocket.Message.Send
OtherWorkerTrace(k) ==
    /\ ~crashed
    /\ k \in OtherIds
    /\ oworkers[k].pc = "trace"
    /\ Publish(<<ForRequest(debugMessageOf(OtherAddr, "httpResponse",
                                           [w |-> k, n |-> 1, frame |-> oworkers[k].frame,
                                            body |-> oworkers[k].body,
                                            rpcErr |-> oworkers[k].rpcErr]),
                            oworkers[k].req)>>)
    /\ oworkers' = [oworkers EXCEPT ![k].pc = "done"]
    /\ UNCHANGED <<cfgVars, sessVars, traceRequests, loopVars, watchVars,
                   statVars, statActiveConns, opc, onread, omsg, oheaders, opsVars>>

OtherReturn ==
    /\ ~crashed
    /\ opc = "closing"
    /\ Publish(ExitEvents(OtherAddr))
    /\ statActiveConns' = GaugeDec(env.sinks, statActiveConns)
    /\ opc' = "closed"
    /\ UNCHANGED <<cfgVars, sessVars, traceRequests, loopVars, watchVars,
                   statVars, onread, omsg, oheaders, oworkers, opsVars>>

Next ==
    \/ HandlerStart
    \/ OtherStart
    \/ OtherConnect
    \/ OtherReceive
    \/ OtherReceiveErr
    \/ OtherPublish
    \/ OtherDispatch
    \/ \E k \in 1..Len(oworkers) : OtherWorkerPost(k)
    \/ \E k \in 1..Len(oworkers) : OtherWorkerReturn(k)
    \/ \E k \in 1..Len(oworkers) : OtherWorkerTrace(k)
    \/ OtherReturn
    \/ HandlerConnect
    \/ HandlerReceive
    \/ HandlerReceiveErr
    \/ HandlerFrame
    \/ HandlerDispatch
    \/ HandlerReturn
    \/ \E w \in 1..Len(workers) : WorkerPost(w)
    \/ \E w \in 1..Len(workers) : WorkerReturn(w)
    \/ \E w \in 1..Len(workers) : WorkerRelease(w)
    \/ \E w \in 1..Len(workers) : WorkerProcess(w)
    \/ \E w \in 1..Len(workers) : WorkerTrace(w)
    \/ \E w \in 1..Len(workers) : WorkerSend(w)
    \/ LoopEvent
    \/ \E w \in Watchers : LoopDeliver(w)
    \/ LoopTraceRequest
    \/ LoopOp
    \/ IndexRequest
    \/ \E w \in Watchers : WatcherRegister(w)
    \/ \E w \in Watchers : WatcherForward(w)
    \/ \E w \in Watchers : WatcherRangeEnd(w)
    \/ \E w \in Watchers : WatcherCancel(w)

Spec == Init /\ [][Next]_vars

(***************************************************************************)
(* Properties.                                                             *)
(***************************************************************************)
SessionOpen == rpc \notin {"closing", "closed"} /\ ~env.sendFails
WorkerIds == 1..Len(workers)
\* the goroutines that hold a slot of rf.maxParallelRequest
SlotHolders == {w \in WorkerIds : workers[w].pc \in {"post", "inflight", "release"}}
RepliesOf(w) == {r \in replies : r.w = w}
AllowedCanonical == {CanonicalMIMEHeaderKey(h) : h \in allowedHeaders}

\* C1: in every reachable state the number of dispatch workers of the
\* session that hold a semaphore slot (admitted, upstream call not yet
\* returned and released) is at most MaxParallelRequests; it is the number
\* of values in the semaphore channel.
C1_SlotsBounded ==
    /\ Cardinality(SlotHolders) <= maxParallelRequests
    /\ Cardinality(SlotHolders) = sem

\* every slot is held and the reader waits at the semaphore with a frame
C1_ReaderBlockedAtFullSemaphore ==
    /\ maxParallelRequests > 0
    /\ Cardinality(SlotHolders) = maxParallelRequests
    /\ rpc = "acquire"

C3_SnapshotCarriesLastSet ==
    [][(rpc = "acquire" /\ rpc' = "recv")
          => \A p \in lastSet : p \in workers'[Len(workers')].headers]_vars

\* C4: the headers a worker's POST carries are the copy made when the
\* worker was dispatched plus Content-Type, whatever control frames were
\* processed since.
C4_SnapshotFixedAtDispatch ==
    \A w \in WorkerIds :
        workers[w].pc \in {"inflight", "release", "read", "trace", "send"}
            => workers[w].posted =
                  HeaderAdd(workers[w].headers, sContentType, sApplicationJson)

\* a POST is in flight and the session headers have changed since its
\* dispatch
C4_SetWhileInFlight ==
    \E w \in WorkerIds :
        /\ workers[w].pc = "inflight"
        /\ headers # workers[w].headers
        /\ workers[w].posted # HeaderAdd(headers, sContentType, sApplicationJson)

\* C5: every watcher that is registered and waits on its inbox is
\* registered for the address of a session whose disconnect event is still
\* to be processed by the loop, which will close the inbox.
DisconnectToCome(t) ==
    /\ t = SessionAddr
    /\ \/ rpc # "closed"
       \/ \E i \in 1..Len(events) : events[i].msgType = "clientDisconnected"
C5_NoOrphanWatcher ==
    \A p \in tracers : wpc[p[2]] = "range" => DisconnectToCome(p[1])

\* C6: a frame beginning with "SET " or "AUTH " is never the frame of a
\* reply, never the frame of a dispatch worker (so it takes no slot and
\* makes no upstream call) and never waits at the semaphore.
C6_ControlFramesSilent ==
    /\ \A r \in replies : ~IsControl(r.frame)
    /\ \A w \in WorkerIds : ~IsControl(workers[w].frame)
    /\ rpc = "acquire" => ~IsControl(msg)

\* a control frame naming a header outside the allow-list has been handled:
\* nothing was written, no slot is held
C6_RefusedControlHandled ==
    /\ rpc = "recv"
    /\ nread > 0
    /\ IsControl(msg)
    /\ ControlName(msg) \notin allowedHeaders
    /\ replies = {}
    /\ sem = 0
    /\ workers = <<>>

\* C7: the step that handles a control frame leaves the reader in Reading.
C7_ControlReturnsToReading ==
    [][(rpc = "publish" /\ IsControl(msg) /\ rpc' # "publish") => rpc' = "recv"]_vars

\* C8: once the reader has handled an accepted "SET name value", the header
\* stored for name is the whole remainder after the first space following
\* the name.
C8_WholeRemainderStored ==
    (rpc = "recv" /\ nread > 0 /\ HasPrefix(msg.text, sSET) /\ IsAccepted(msg))
        => HeaderValues(headers, ControlName(msg)) = {ControlValue(msg)}

\* C9: with Authorization allow-listed, "AUTH v" and "SET Authorization v"
\* leave the session headers in the same state, for every value v; without
\* it, "AUTH v" leaves them unchanged.
C9_AuthIsSetAuthorization ==
    \A v \in FrameValues :
        LET a == checkAndSetHeaders(allowedHeaders, headers, AuthFrame(v))
            t == checkAndSetHeaders(allowedHeaders, headers, SetFrame(sAuthorization, v))
        IN  IF sAuthorization \in allowedHeaders
            THEN a.headers = t.headers /\ a.panic = t.panic
            ELSE a.headers = headers

\* C10: handling a received "SET name value" whose name is not in the
\* allow-list leaves the header map unchanged, and the session headers, every snapshot and every
\* POST hold allow-listed names only (Content-Type apart), names taken in
\* the canonical form http.Header stores them in.
C10_OnlyAllowedNames ==
    /\ LET canonical == AllowedCanonical
       IN  /\ HeaderKeys(headers) \subseteq canonical
           /\ \A w \in WorkerIds :
                 /\ HeaderKeys(workers[w].headers) \subseteq canonical
                 /\ HeaderKeys(workers[w].posted) \subseteq canonical \cup {sContentType}
    /\ (rpc = "publish" /\ HasPrefix(msg.text, sSET) /\ ControlName(msg) \notin allowedHeaders)
          => checkAndSetHeaders(allowedHeaders, headers, msg).headers = headers

\* a SET of a name outside the allow-list has been handled on a session
\* that holds a header, and the map is as it was
C10_RefusedSetHandled ==
    /\ rpc = "recv"
    /\ HasPrefix(msg.text, sSET)
    /\ ControlName(msg) \notin allowedHeaders
    /\ headers # {}
    /\ nEvil \notin HeaderKeys(headers)

\* the method of a frame, its part before the first "." and the part after
MethodOf(f) == JsonRpcRequest(f).Method
HasDot(m) == IndexOf(m, ".") > 0
PrefixOf(m) == SubSeq(m, 1, IndexOf(m, ".") - 1)
AfterDot(m) == SubSeq(m, IndexOf(m, ".") + 1, Len(m))
RuleOf(src) == CHOOSE r \in multipleRules : r.Src = src
Routed(f) ==
    /\ f.json
    /\ HasDot(MethodOf(f))
    /\ \E r \in multipleRules : r.Src = <<"/">> \o PrefixOf(MethodOf(f))
\* the raw value of member k as json.Marshal writes it back
MemberOrNull(f, k) == IF HasField(f.fields, k) THEN FieldOf(f.fields, k) ELSE sNull

\* C11: in multi mode a frame whose method has a "." and whose prefix is a
\* src of the route table is rewritten without error: dstUrl is the rule's
\* dst, srcUrl is "/" + prefix, the method is the part after the first "."
\* (further dots kept) and the body is the envelope serialised again with
\* the id and the params of the frame.
C11_RewriteRouted ==
    multipleRules # {} =>
        /\ (rpc = "publish" /\ Routed(msg))
              => rewriteRequest(multipleRules, Path, msg, DstUrl).err = ""
        /\ rpc = "acquire" =>
              /\ Routed(msg)
              /\ pending.srcUrl = <<"/">> \o PrefixOf(MethodOf(msg))
              /\ pending.dstUrl = RuleOf(pending.srcUrl).DstUrl
              /\ pending.req.Method = AfterDot(MethodOf(msg))
              /\ pending.msg =
                    Obj(<<<<"jsonrpc", MemberOrNull(msg, "jsonrpc")>>,
                          <<"id", MemberOrNull(msg, "id")>>,
                          <<"method", Quoted(AfterDot(MethodOf(msg)))>>,
                          <<"params", MemberOrNull(msg, "params")>>>>)

\* a call of method r.m.n with params has been rewritten for rule /r
C11_TwoDotsRewritten ==
    /\ multipleRules # {}
    /\ rpc = "acquire"
    /\ MethodOf(msg) = mRMN
    /\ pending.req.Method = <<"m", ".", "n">>
    /\ pending.req.Params = pArr
    /\ pending.dstUrl = "http://r"

\* the replies the reader itself wrote (rewrite errors)
ReaderReplies == {r \in replies : r.w = 0}
RewriteErrorOf(f) == IF HasDot(MethodOf(f)) THEN errInvalidPrefix ELSE errMethodFormat

\* C12: in multi mode a parsed frame whose method has no "." or whose
\* prefix is not in the route table is never dispatched (no slot, no
\* upstream call); with an id it gets one error reply with code -32601, the
\* rewrite error as message and its id, without an id it gets no reply.
C12_RewriteErrorReply ==
    multipleRules # {} =>
        /\ \A w \in WorkerIds : workers[w].pc # "done" => Routed(workers[w].frame)
        /\ \A r \in replies : r.w # 0 => Routed(r.frame)
        /\ \A r \in ReaderReplies :
              /\ r.frame.json /\ ~Routed(r.frame)
              /\ HasField(r.frame.fields, "id")
              /\ r.rpcErr.Code = -32601
              /\ r.rpcErr.Message = RewriteErrorOf(r.frame)
              /\ r.rpcErr.Id = FieldOf(r.frame.fields, "id")
        /\ (rpc = "recv" /\ nread > 0 /\ msg.json /\ ~Routed(msg)) =>
              /\ HasField(msg.fields, "id")
                    => Cardinality({r \in ReaderReplies : r.n = nread /\ r.frame = msg}) = 1
              /\ ~HasField(msg.fields, "id")
                    => {r \in ReaderReplies : r.n = nread} = {}

\* a call with an unknown prefix has been answered by the reader and
\* nothing was dispatched
C12_UnknownPrefixAnswered ==
    /\ multipleRules # {}
    /\ rpc = "recv"
    /\ msg = Call(mQM, <<"1">>)
    /\ workers = <<>>
    /\ sem = 0
    /\ \E r \in ReaderReplies :
          r.n = nread /\ r.rpcErr.Code = -32601 /\ r.rpcErr.Message = errInvalidPrefix

\* C13: when rewriteRequest fails in multi mode on a parsed frame (method
\* without ".", or prefix not in the route table) the request it returns
\* has the frame's bytes and the frame's method unchanged, srcUrl is the
\* connection path for a method without dot and "/" + prefix for an
\* unknown prefix, and dstUrl is empty.
C13_FailedRewriteKeepsRequest ==
    (multipleRules # {} /\ rpc = "publish" /\ msg.json /\ ~Routed(msg)) =>
        LET rw == rewriteRequest(multipleRules, Path, msg, DstUrl)
        IN  /\ rw.err = RewriteErrorOf(msg)
            /\ rw.rpcReq.msg = msg
            /\ rw.rpcReq.req.Method = MethodOf(msg)
            /\ rw.rpcReq.srcUrl = IF HasDot(MethodOf(msg))
                                  THEN <<"/">> \o PrefixOf(MethodOf(msg))
                                  ELSE <<"/">>
            /\ rw.rpcReq.dstUrl = ""

\* a call whose method has no dot has been refused in multi mode
C13_NoDotRefused ==
    /\ multipleRules # {}
    /\ rpc = "recv"
    /\ msg = Call(mM, Quoted(<<"x">>))
    /\ \E r \in ReaderReplies : r.n = nread /\ r.rpcErr.Message = errMethodFormat

\* C14: in single mode rewriteRequest does not fail on a parsed frame and
\* rewrites nothing: whatever the method, the body to post is the frame as
\* received, the method is the frame's, srcUrl is the connection path and
\* dstUrl the handler's dst; so it is for every request dispatched.
C14_SingleModeUntouched ==
    multipleRules = {} =>
        /\ (rpc = "publish" /\ msg.json) =>
              LET rw == rewriteRequest(multipleRules, Path, msg, DstUrl)
              IN  /\ rw.err = ""
                  /\ rw.rpcReq.msg = msg
                  /\ rw.rpcReq.req.Method = MethodOf(msg)
                  /\ rw.rpcReq.srcUrl = Path
                  /\ rw.rpcReq.dstUrl = DstUrl
        /\ rpc = "acquire" =>
              pending = [req |-> JsonRpcRequest(msg), msg |-> msg,
                         srcUrl |-> Path, dstUrl |-> DstUrl]
        /\ \A w \in WorkerIds : workers[w].pc # "done" =>
              /\ workers[w].rpcReq.msg = workers[w].frame
              /\ workers[w].rpcReq.dstUrl = DstUrl
              /\ workers[w].rpcReq.srcUrl = Path

\* in single mode a call whose method has a dot and an unknown prefix is
\* posted as it came, and so is the empty object
C14_DottedMethodPosted ==
    /\ multipleRules = {}
    /\ \E w \in WorkerIds :
          /\ workers[w].pc = "inflight"
          /\ workers[w].frame = Call(mQM, <<"1">>)
          /\ workers[w].rpcReq.req.Method = mQM
    /\ rpc = "acquire"
    /\ msg = Obj(<<>>)

\* C15: once the reader has handled a frame that is no control frame and
\* does not parse as a JSON envelope, the frame has a server-error reply
\* (code -32000), and it was not dispatched.
C15_ParseFailureAnswered ==
    (rpc = "recv" /\ nread > 0 /\ ~msg.json /\ ~IsControl(msg)) =>
        /\ \E r \in ReaderReplies :
              r.n = nread /\ r.frame = msg /\ r.rpcErr.Code = JsonRpcServerErr
        /\ \A w \in WorkerIds : workers[w].pc # "done" => workers[w].frame.json

IdOf(f) == JsonRpcRequest(f).Id
\* the workers whose HTTP call has returned and that have not finished
Returned == {w \in WorkerIds : workers[w].pc \in {"release", "read", "trace", "send"}}

\* C16: for a dispatched request whose upstream answered with a status s
\* other than 200 the reply is an error with code -s and the request's id;
\* when the call failed without a status (timeout included) it is an error
\* with code -32000 and the request's id.
C16_ErrorCodeFromStatus ==
    /\ \A w \in Returned :
          LET wk == workers[w]
          IN  /\ wk.out.err # "" =>
                    /\ ~wk.rpcErr.nil
                    /\ wk.rpcErr.Code = -32000
                    /\ wk.rpcErr.Id = IdOf(wk.frame)
              /\ (wk.out.err = "" /\ wk.out.httpCode # 200) =>
                    /\ ~wk.rpcErr.nil
                    /\ wk.rpcErr.Code = 0 - wk.out.httpCode
                    /\ wk.rpcErr.Id = IdOf(wk.frame)
              /\ wk.pc = "send" => Reply(w).rpcErr = wk.rpcErr
    /\ \A r \in replies :
          (r.w # 0 /\ ~r.rpcErr.nil /\ r.rpcErr.Message # readFail.readErr) =>
              /\ r.rpcErr.Id = IdOf(r.frame)
              /\ r.rpcErr.Code \in {-32000, -502, -404}

\* the session has an error reply with code -502 and one with code -32000,
\* both with the id of the call
C16_StatusAndTransportReplied ==
    /\ \E r \in replies : r.w # 0 /\ r.rpcErr.Code = -502 /\ r.rpcErr.Id = <<"1">>
    /\ \E r \in replies : r.w # 0 /\ r.rpcErr.Code = -32000 /\ r.rpcErr.Id = <<"1">>

BodyReadFailed(out) == out.err = "" /\ out.httpCode = 200 /\ out.readErr # ""

Succeeded(out) == out.err = "" /\ out.httpCode = 200 /\ out.readErr = ""

\* C18: when the upstream answers 200 and the body is read, the reply is
\* the body as the upstream wrote it and no error envelope; a reply that is
\* no error envelope is an upstream body.
C18_ReplyIsUpstreamBody ==
    /\ \A w \in WorkerIds :
          (workers[w].pc \in {"trace", "send"} /\ Succeeded(workers[w].out)) =>
              /\ Reply(w).body = workers[w].out.body
              /\ Reply(w).rpcErr.nil
    /\ \A r \in replies :
          r.w # 0 =>
              /\ r.rpcErr.nil <=> r.body # "error"
              /\ r.rpcErr.nil => r.body = ok200.body

\* on an open session the client has got the upstream body of a call
C18_BodyReplied ==
    /\ SessionOpen
    /\ \E r \in replies : r.w # 0 /\ r.rpcErr.nil /\ r.body = ok200.body

\* C19: a worker gives its slot back once, right after its HTTP call has
\* returned, whatever the call returned, and before the body is read and
\* the reply written: the semaphore holds one value for each worker that
\* has not passed its release and none for the others; a worker that
\* still holds its slot has read no body and written no reply.
C19_SlotReleasedAfterCall ==
    /\ sem >= 0
    /\ sem = Cardinality({w \in WorkerIds : workers[w].pc \in {"post", "inflight", "release"}})
    /\ \A w \in WorkerIds :
          workers[w].pc \in {"post", "inflight", "release"} =>
              /\ workers[w].body = ""
              /\ RepliesOf(w) = {}

\* the slot of a call that failed is free again while that worker has
\* still to read, publish and reply
C19_ReleasedBeforeReply ==
    \E w \in WorkerIds :
        /\ workers[w].pc = "read"
        /\ workers[w].out.err # ""
        /\ sem = 0
        /\ RepliesOf(w) = {}

\* C20: while every slot of the session is held and the reader waits at the
\* semaphore with a frame, no step reads a further frame, applies a control
\* frame, changes the waiting frame or ends the reader; the reader leaves
\* the semaphore only when a slot is free, and then the frame that waited
\* is the one handed to the new worker, after which the reader reads the
\* next frame in arrival order.
C20_ReaderBlockedWhileFull ==
    [][/\ (rpc = "acquire" /\ sem >= maxParallelRequests) =>
              /\ rpc' = "acquire"
              /\ nread' = nread
              /\ headers' = headers
              /\ lastSet' = lastSet
              /\ msg' = msg
              /\ pending' = pending
              /\ Len(workers') = Len(workers)
       /\ (rpc = "acquire" /\ rpc' # "acquire") =>
              /\ sem < maxParallelRequests
              /\ rpc' = "recv"
              /\ nread' = nread
              /\ Len(workers') = Len(workers) + 1
              /\ workers'[Len(workers')].frame = msg
              /\ workers'[Len(workers')].rpcReq = pending
       /\ nread' \in {nread, nread + 1}
       /\ nread' = nread + 1 => rpc = "recv"]_vars

\* the reader waits at the full semaphore with a frame while a call has
\* returned and its worker is about to free the slot
C20_BlockedUntilCallReturns ==
    /\ maxParallelRequests > 0
    /\ sem = maxParallelRequests
    /\ rpc = "acquire"
    /\ pending # NoRpcReq
    /\ \E w \in WorkerIds : workers[w].pc = "release"

\* C21: once the handler has returned (its disconnect event published) every
\* dispatch worker of the session has finished, and no httpResponse event
\* of the session is published after its disconnect event.
C21_ClosedAfterWorkers ==
    /\ rpc = "closed" => \A w \in WorkerIds : workers[w].pc = "done"
    /\ \A i, j \in 1..Len(events) :
          (events[i].msgType = "clientDisconnected" /\ i < j)
              => events[j].msgType # "httpResponse"

\* C22: publishing a wsRequest or httpResponse event never blocks: a reader
\* that is to publish its frame, and a worker that is to publish its
\* response, can take its step in every state, whatever debug.events holds.
C22_PublishNeverBlocks ==
    /\ rpc = "publish" => ENABLED HandlerFrame
    /\ \A w \in WorkerIds : workers[w].pc = "trace" => ENABLED WorkerTrace(w)

\* the loop waits in "tracer.Msg <- e" on watchers that read no more: their
\* wsHandler has returned, their inbox is full
LoopStuck ==
    /\ lpc = "fanout"
    /\ \A w \in lpend : wpc[w] \in {"cancel", "exit"} /\ Len(inbox[w]) = ChanCap

\* C23: the reader of one session is never held for good by another
\* session's watcher: the second session never waits to publish a frame on
\* a full debug.events while the loop is stuck fanning out an event of the
\* first session.
C23_NoCrossSessionStall ==
    ~(/\ opc = "publish"
      /\ Len(events) = ChanCap
      /\ LoopStuck
      /\ lcur.addr = SessionAddr)

\* C24: whichever of the three sinks are set, statRequest never ends a
\* worker: no worker panics there and the process stays alive, and with
\* the request counter set every worker that has passed statRequest has
\* been counted.
C24_NilSinksSkipped ==
    /\ ~crashed
    /\ \A w \in WorkerIds : workers[w].pc # "panic"
    /\ env.sinks.requests =>
          BagCardinality(statBackendRequests) =
              Cardinality({w \in WorkerIds : workers[w].pc \in {"trace", "send", "done"}})

\* the status a request's outcome calls for
ExpectedStatus(out) ==
    IF out.timeout THEN "timeout"
    ELSE IF out.err # "" \/ out.httpCode # 200 THEN "error"
    ELSE "ok"
LeavesStatRequest(w) == workers[w].pc = "read" /\ workers'[w].pc # "read"

\* C25: with the request counter set, the step in which a worker passes
\* statRequest adds exactly one to the counter, under the status "timeout"
\* when the transport error was a timeout, "error" for another transport
\* error or a status other than 200, "ok" otherwise; no other step changes
\* the counter; and the reply written for a timed-out request is an error
\* with code -32000 and the request's id.
C25_OneCountPerRequest ==
    [][/\ \A w \in WorkerIds :
             (LeavesStatRequest(w) /\ env.sinks.requests) =>
                 statBackendRequests' = statBackendRequests (+)
                     SetToBag({<<workers[w].rpcReq.srcUrl, workers[w].rpcReq.req.Method,
                                 ExpectedStatus(workers[w].out)>>})
       /\ statBackendRequests' # statBackendRequests =>
             \E w \in WorkerIds : LeavesStatRequest(w)
       /\ \A w \in WorkerIds :
             (workers[w].pc = "send" /\ workers[w].out.timeout) =>
                 \A r \in replies' \ replies :
                     r.w = w =>
                         /\ r.rpcErr.Code = JsonRpcServerErr
                         /\ r.rpcErr.Id = IdOf(workers[w].frame)]_vars

\* a timed-out request has been counted under "timeout" and its worker is
\* about to send the error reply
C25_TimeoutCounted ==
    \E w \in WorkerIds :
        /\ workers[w].pc = "send"
        /\ workers[w].out.timeout
        /\ \E l \in BagToSet(statBackendRequests) :
              l[3] = "timeout" /\ statBackendRequests[l] = 1

\* the sessions whose Handler has started and not returned
Started == {a \in {SessionAddr} : rpc \notin {"start", "closed"}}
               \cup {a \in {OtherAddr} : opc \notin {"start", "closed"}}

\* C26: with the gauge set, its value is in every state the number of
\* sessions whose handler has started and not yet returned; so it is never
\* negative and is zero when no session is running.  Without the gauge
\* nothing is counted.
C26_GaugeCountsSessions ==
    /\ env.sinks.conns => statActiveConns = Cardinality(Started)
    /\ ~env.sinks.conns => statActiveConns = 0
    /\ statActiveConns >= 0

\* one session has returned after a panic or a read error while the other
\* still runs: the gauge is back to one
C26_OneSessionLeft ==
    /\ env.sinks.conns
    /\ rpc = "closed"
    /\ opc = "publish"
    /\ statActiveConns = 1

\* the sessions that have published their connect event and not their
\* disconnect event
Live == {a \in {SessionAddr, OtherAddr} :
            Published(a, "clientConnected") > Published(a, "clientDisconnected")}

\* C27: whenever debug.events has been emptied by the loop, the loop's
\* sessions map holds exactly the addresses of the sessions that have
\* published connect and not disconnect; and a closure run through d.ops
\* is given exactly the keys of that map.
C27_SessionsAreLive ==
    [][/\ events' = <<>> => sessions' = Live'
       /\ ops' < ops => listed' = sessions]_vars

\* with nothing left to process, a closure has listed one session while
\* the other has already disconnected
C27_ListedTheLiveSession ==
    /\ events = <<>>
    /\ listed = {OtherAddr}
    /\ sessions = {OtherAddr}
    /\ rpc = "closed"
    /\ opc \notin {"start", "connect", "closed"}

\* C28: a session has published one connect event from the moment its
\* reader loop starts and none before, so never a wsRequest without it; it
\* has published one disconnect event once its handler has returned and
\* none before, whatever ended the handler (EOF, read error, panic of the
\* reader).
C28_OneConnectOneDisconnect ==
    /\ Published(SessionAddr, "clientConnected") = IF rpc \in {"start", "connect"} THEN 0 ELSE 1
    /\ Published(SessionAddr, "clientDisconnected") = IF rpc = "closed" THEN 1 ELSE 0
    /\ Published(SessionAddr, "wsRequest") > 0 => Published(SessionAddr, "clientConnected") = 1
    /\ Published(OtherAddr, "clientConnected") = IF opc \in {"start", "connect"} THEN 0 ELSE 1
    /\ Published(OtherAddr, "clientDisconnected") = IF opc = "closed" THEN 1 ELSE 0
    /\ Published(OtherAddr, "wsRequest") > 0 => Published(OtherAddr, "clientConnected") = 1

\* the handler has returned after the reader panicked on its last frame,
\* and the disconnect event is out
C28_DisconnectAfterPanic ==
    /\ rpc = "closed"
    /\ nread > 0
    /\ checkAndSetHeaders(allowedHeaders, headers, msg).panic
    /\ Published(SessionAddr, "clientDisconnected") = 1
    /\ Published(SessionAddr, "wsRequest") = nread

\* the watchers registered under target t
RegisteredUnder(t) == {w \in Watchers : <<t, w>> \in tracers}

\* C29: when the loop takes a wsRequest or httpResponse event of target T
\* from debug.events, the inboxes it is to write to are exactly those
\* registered under T; an inbox only ever grows by the event being fanned
\* out, and only if it is one of those; registrations do not change during
\* the fan-out, which ends only when every one of them has been written.
C29_FanOutToTargetOnly ==
    [][/\ (Len(events') < Len(events)
              /\ Head(events).msgType \in {"wsRequest", "httpResponse"}) =>
                 /\ lpend' = RegisteredUnder(Head(events).addr)
                 /\ lpend' # {} => lcur' = Head(events)
       /\ \A w \in Watchers :
             Len(inbox'[w]) > Len(inbox[w]) =>
                 /\ lpc = "fanout"
                 /\ w \in lpend
                 /\ w \in RegisteredUnder(lcur.addr)
                 /\ lcur.msgType \in {"wsRequest", "httpResponse"}
                 /\ inbox'[w] = Append(inbox[w], lcur)
                 /\ lpend' = lpend \ {w}
       /\ lpc = "fanout" =>
             /\ tracers' = tracers
             /\ lpend # {}
             /\ lpc' = "select" => lpend' = {}]_vars

\* an event of the session is being fanned out to its watcher while
\* another watcher is registered under a different address
C29_OtherTargetLeftOut ==
    /\ lpc = "fanout"
    /\ lcur.addr = SessionAddr
    /\ tracers = {<<SessionAddr, "w1">>, <<NoAddr, "w2">>}
    /\ lpend = {"w1"}
    /\ inbox["w2"] = <<>>

\* the loop has processed the cancel request of watcher w
Cancelled(w) ==
    /\ wpc[w] = "exit"
    /\ \A i \in 1..Len(traceRequests) : traceRequests[i].Addr # w

\* C30: the step that processes a cancel for (target, watcher) removes
\* that one registration and nothing else: the other watchers of the target
\* stay, no inbox is written or closed, and without such a registration
\* nothing changes; from then on the watcher is registered nowhere and its
\* inbox does not grow.
C30_CancelRemovesOneWatcher ==
    [][/\ (Len(traceRequests') < Len(traceRequests) /\ Head(traceRequests).Cancel) =>
             /\ tracers' = tracers \ {<<Head(traceRequests).TargetAddr,
                                        Head(traceRequests).Addr>>}
             /\ inbox' = inbox
             /\ inboxClosed' = inboxClosed
             /\ sessions' = sessions
       /\ \A w \in Watchers :
             Cancelled(w) =>
                 /\ inbox'[w] = inbox[w]
                 /\ \A p \in tracers' : p[2] # w
                 /\ w \notin lpend']_vars

\* the cancel of one watcher of the session has been processed and an
\* event is being fanned out to the other watcher of the session alone
C30_OtherWatcherStillServed ==
    /\ Cancelled("w1")
    /\ tracers = {<<SessionAddr, "w2">>}
    /\ lpc = "fanout"
    /\ lpend = {"w2"}
    /\ inbox["w1"] = <<>>

\* the step in which worker w finds its reply cannot be written
SendFailed(w) ==
    /\ workers[w].pc = "send"
    /\ workers'[w].pc = "done"
    /\ replies' = replies

\* C31: the step in which a worker fails to write its reply changes that
\* worker alone: the reader stays where it is (and so goes on reading and
\* dispatching), the semaphore, the session headers and the other workers
\* are untouched, and the worker held no slot any more.
C31_FailedWriteEndsWorkerOnly ==
    [][\A w \in WorkerIds :
          SendFailed(w) =>
              /\ rpc' = rpc
              /\ sem' = sem
              /\ sem = Cardinality(SlotHolders)
              /\ nread' = nread
              /\ headers' = headers
              /\ pending' = pending
              /\ \A v \in WorkerIds \ {w} : workers'[v] = workers[v]]_vars

\* after one worker failed to write, the reader has read a later frame,
\* whose worker has written its reply, and is reading on
C31_LaterReplyWritten ==
    /\ env.sendFails
    /\ rpc = "recv"
    /\ nread > 1
    /\ Len(workers) > 1
    /\ workers[1].pc = "done" /\ RepliesOf(1) = {}
    /\ workers[2].pc = "done" /\ RepliesOf(2) # {}

\* C32: the reader never waits for good at admission: when it stands at
\* the send on rf.maxParallelRequest and no goroutine holds a slot (so no
\* receive from the channel can still come), the send goes through.
C32_AdmissionNeverStuck ==
    (rpc = "acquire" /\ ~crashed /\ SlotHolders = {}) => ENABLED HandlerDispatch

\* C33: debugApp.loop never sends an event to an inbox it has closed and
\* never closes an inbox twice: it never panics on a tracer's channel, and
\* every inbox it still holds in tracers, or is about to send to, is open.
C33_NoUseOfClosedInbox ==
    /\ lpc # "panic"
    /\ \A p \in tracers : ~inboxClosed[p[2]]
    /\ lpc = "fanout" => \A w \in lpend : ~inboxClosed[w]

\* an event of the session waits in debug.events after the loop has closed
\* the inbox of a watcher of that session
C33_EventAfterClose ==
    /\ events # <<>>
    /\ Head(events).addr = SessionAddr
    /\ Head(events).msgType = "httpResponse"
    /\ \E w \in Watchers : inboxClosed[w] /\ wtarget[w] = SessionAddr
    /\ lpc = "select"

\* C34: debugApp.loop never waits for good: whenever it stands in the
\* fan-out of an event, one of the watchers it still has to serve either
\* has room in its inbox or is still reading it.
C34_ArbiterNeverStuck ==
    (lpc = "fanout" /\ ~crashed) =>
        \E w \in lpend : Len(inbox[w]) < ChanCap \/ wpc[w] = "range"

OwnPairs(frames) ==
    UNION {checkAndSetHeaders(allowedHeaders, {}, f).headers : f \in frames}
ContentTypePair == <<CanonicalMIMEHeaderKey(sContentType), sApplicationJson>>

\* C36: the headers an upstream POST of a session carries, and the snapshot
\* its goroutine was given, hold only entries set by control frames of that
\* same session (and Content-Type): nothing a SET or AUTH frame of the other
\* session of the forwarder put in that session's map.
C36_HeadersPerSession ==
    /\ \A k \in OtherIds :
          /\ oworkers[k].headers \subseteq OwnPairs(env.otherFrames)
          /\ oworkers[k].posted \subseteq OwnPairs(env.otherFrames) \cup {ContentTypePair}
    /\ \A w \in WorkerIds :
          /\ workers[w].headers \subseteq OwnPairs(env.frames)
          /\ workers[w].posted \subseteq OwnPairs(env.frames) \cup {ContentTypePair}

\* a POST of the second session is in flight with the value that session
\* set, while the first session's map holds another value for the header
C36_TwoValuesSideBySide ==
    \E k \in OtherIds :
        /\ oworkers[k].pc = "inflight"
        /\ oworkers[k].posted = HeaderAdd(oheaders, sContentType, sApplicationJson)
        /\ oheaders # {}
        /\ headers # {}
        /\ headers # oheaders

\* C37: the step in which the reader goes on from a frame it has read sends
\* exactly one event to debug.events, a wsRequest event of the session with
\* the whole frame as data, whether the frame is a control frame or not, and
\* no other step sends a wsRequest event of the session; the loop hands the
\* event to the watchers as it is; and an httpResponse event of the session
\* is sent only by a goroutine, never by the step that answers a frame
\* rewriteRequest refused.
C37_EveryFrameTracedOnce ==
    [][/\ (rpc = "publish" /\ rpc' # "publish") =>
             /\ events' = Append(events, events'[Len(events')])
             /\ events'[Len(events')].msgType = "wsRequest"
             /\ events'[Len(events')].addr = SessionAddr
             /\ events'[Len(events')].data = msg
             /\ events'[Len(events')].req = nread
             /\ Published(SessionAddr, "wsRequest")' = Published(SessionAddr, "wsRequest") + 1
       /\ Published(SessionAddr, "wsRequest")' # Published(SessionAddr, "wsRequest") =>
             (rpc = "publish" /\ rpc' # "publish")
       /\ \A w \in Watchers :
             Len(inbox'[w]) > Len(inbox[w]) => inbox'[w] = Append(inbox[w], lcur)
       /\ (lpc = "select" /\ lpc' = "fanout") => lcur' = Head(events)
       /\ Published(SessionAddr, "httpResponse")' # Published(SessionAddr, "httpResponse") =>
             /\ \E w \in WorkerIds : workers[w].pc = "trace" /\ workers'[w].pc # "trace"
             /\ replies' = replies]_vars

\* a watcher of the session holds, unread, the wsRequest event of an AUTH
\* frame with the credential in it
C37_WatcherHoldsCredential ==
    \E w \in Watchers :
        /\ wtarget[w] = SessionAddr
        /\ inbox[w] # <<>>
        /\ Head(inbox[w]).msgType = "wsRequest"
        /\ Head(inbox[w]).data = AuthFrame(<<"v">>)
        /\ headers # {}

=============================================================================
